---------------------------- MODULE Spec2Model ----------------------------
(***************************************************************************)
(* A model of flag.h v1.7.0 (src/flag.h lines 673-1638): the flag registry *)
(* of one Flag_Context, the declare functions, and flag_c_parse.           *)
(*                                                                         *)
(* Strings are sequences of one-character strings.  An argument of the     *)
(* vector is a buffer (the characters before its terminating NUL); the     *)
(* parser writes a NUL over the '=' of `-name=value`, so buffers are part  *)
(* of the state.  A char* is a record [arg, off]: the address of character *)
(* off (zero based) of argument arg.  arg = 0 is NULL, arg < 0 is a string *)
(* literal of the calling program.                                         *)
(*                                                                         *)
(* uint64_t / size_t / unsigned long long values are eight base-256 limbs, *)
(* least significant first, so that the arithmetic keeps its 64-bit width. *)
(***************************************************************************)
EXTENDS Integers, Sequences, FiniteSets, TLC

(***************************************************************************)
(* Build configuration and bounds                                          *)
(***************************************************************************)

\* -DFLAGS_CAP=2: the macro is a documented build parameter (default 256).
FLAGS_CAP == 2

\* -DFLAG_LIST_INIT_CAP=2: documented build parameter (default 8).
FLAG_LIST_INIT_CAP == 2

\* The longest argument vector handed to flag_c_parse.
MaxArgs == 3

\* errno values
ENONE == "0"
ERANGE == "ERANGE"

NUL == "NUL"

(***************************************************************************)
(* 64-bit unsigned arithmetic                                              *)
(***************************************************************************)

Limbs == 1..8

\* The eight limbs of f as an explicit tuple.
Tuple8(f) == <<f[1], f[2], f[3], f[4], f[5], f[6], f[7], f[8]>>

U64Zero == Tuple8([i \in Limbs |-> 0])

ULLONG_MAX == Tuple8([i \in Limbs |-> 255])

\* A small natural number (below 2^31) as a 64-bit value.
RECURSIVE NatLimb(_, _)
NatLimb(n, i) == IF i = 1 THEN n % 256 ELSE NatLimb(n \div 256, i - 1)

U64(n) == Tuple8([i \in Limbs |-> NatLimb(n, i)])

\* a * k + d for a small k and d: the low 64 bits and the carry out of them.
MulAddSmall(a, k, d) ==
    LET c[i \in 0..8] == IF i = 0 THEN d ELSE (a[i] * k + c[i - 1]) \div 256
    IN  [val   |-> Tuple8([i \in Limbs |-> (a[i] * k + c[i - 1]) % 256]),
         carry |-> c[8]]

\* Column k of the schoolbook product: the sum of a[i] * b[k + 1 - i].
RECURSIVE ColSum(_, _, _, _)
ColSum(a, b, k, i) ==
    IF i > k THEN 0 ELSE a[i] * b[k + 1 - i] + ColSum(a, b, k, i + 1)

\* a * b modulo 2^64: what `*` and `*=` on unsigned long long compute.
Mul64(a, b) ==
    LET c[k \in 0..8] == IF k = 0 THEN 0
                         ELSE (ColSum(a, b, k, 1) + c[k - 1]) \div 256
    IN  Tuple8([k \in Limbs |-> (ColSum(a, b, k, 1) + c[k - 1]) % 256])

\* -a modulo 2^64 (strtoull negates a numeral that carries a minus sign).
Neg64(a) ==
    LET c[i \in 0..8] == IF i = 0 THEN 1 ELSE ((255 - a[i]) + c[i - 1]) \div 256
    IN  Tuple8([i \in Limbs |-> ((255 - a[i]) + c[i - 1]) % 256])

(***************************************************************************)
(* C strings and pointers                                                  *)
(***************************************************************************)

NULL == [arg |-> 0, off |-> 0]

\* String literals of the calling program: the program name it may give to
\* flag_c_new and the default of its string flags.
Literals == << <<"p", "r", "o", "g">>, <<"H", "i", "!">> >>

LitProg == [arg |-> -1, off |-> 0]
LitDef == [arg |-> -2, off |-> 0]

\* The buffer a pointer points into.
BufOf(mem, p) == IF p.arg > 0 THEN mem[p.arg] ELSE Literals[-p.arg]

\* The character at buf[off] (C indexing); NUL at and past the terminator.
CharAt(buf, off) == IF off < Len(buf) THEN buf[off + 1] ELSE NUL

\* strlen of the string that starts at buf[off].
RECURSIVE StrLenFrom(_, _)
StrLenFrom(buf, off) ==
    IF CharAt(buf, off) = NUL THEN 0 ELSE 1 + StrLenFrom(buf, off + 1)

\* The C string at pointer p: the characters up to the first NUL.
CStr(mem, p) ==
    LET buf == BufOf(mem, p)
    IN  SubSeq(buf, p.off + 1, p.off + StrLenFrom(buf, p.off))

\* strcmp(a, b) == 0 for two C strings given by their characters.
StrEq(a, b) == a = b

\* strchr(p, ch): the first ch of the string at p, or NULL.
RECURSIVE StrChrFrom(_, _, _)
StrChrFrom(buf, off, ch) ==
    IF CharAt(buf, off) = NUL THEN -1
    ELSE IF CharAt(buf, off) = ch THEN off
    ELSE StrChrFrom(buf, off + 1, ch)

StrChr(mem, p, ch) ==
    LET k == StrChrFrom(BufOf(mem, p), p.off, ch)
    IN  IF k < 0 THEN NULL ELSE [arg |-> p.arg, off |-> k]

(***************************************************************************)
(* strtoull(arg, &endptr, 10)                                              *)
(***************************************************************************)

Digits == <<"0", "1", "2", "3", "4", "5", "6", "7", "8", "9">>

IsDigit(c) == \E d \in 1..10 : Digits[d] = c

DigitVal(c) == (CHOOSE d \in 1..10 : Digits[d] = c) - 1

IsSpace(c) == c = " "

RECURSIVE SkipSpace(_, _)
SkipSpace(buf, off) ==
    IF IsSpace(CharAt(buf, off)) THEN SkipSpace(buf, off + 1) ELSE off

\* The digits from buf[off] on: the accumulated value, whether it left the
\* 64-bit range, and the offset of the first character that is no digit.
RECURSIVE ScanDigits(_, _, _, _)
RECURSIVE ScanDigit(_, _, _, _)
ScanDigit(buf, off, over, r) ==
    IF r.carry # 0 THEN ScanDigits(buf, off + 1, r.val, TRUE)
    ELSE ScanDigits(buf, off + 1, r.val, over)

ScanDigits(buf, off, acc, over) ==
    IF ~IsDigit(CharAt(buf, off))
    THEN [val |-> acc, over |-> over, end |-> off]
    ELSE ScanDigit(buf, off, over, MulAddSmall(acc, 10, DigitVal(CharAt(buf, off))))

\* The result, the end pointer offset and the errno strtoull leaves: leading
\* white space and one sign are skipped; without a digit nothing is converted
\* and endptr is the start; a numeral above 2^64-1 gives ULLONG_MAX and sets
\* errno to ERANGE; errno is otherwise left alone.
StrtoullResult(off, errno0, neg, d0, r) ==
    IF r.end = d0
    THEN [result |-> U64Zero, end |-> off, errno |-> errno0]
    ELSE IF r.over
    THEN [result |-> ULLONG_MAX, end |-> r.end, errno |-> ERANGE]
    ELSE [result |-> IF neg THEN Neg64(r.val) ELSE r.val,
          end |-> r.end, errno |-> errno0]

\* Past the white space: s is the offset of the sign or of the first digit.
StrtoullAt(buf, off, errno0, s, d0) ==
    StrtoullResult(off, errno0, CharAt(buf, s) = "-", d0,
                   ScanDigits(buf, d0, U64Zero, FALSE))

HasSign(buf, s) == CharAt(buf, s) = "-" \/ CharAt(buf, s) = "+"

AfterSign(buf, s) == IF HasSign(buf, s) THEN s + 1 ELSE s

StrtoullFrom(buf, off, errno0, s) ==
    StrtoullAt(buf, off, errno0, s, AfterSign(buf, s))

Strtoull(buf, off, errno0) == StrtoullFrom(buf, off, errno0, SkipSpace(buf, off))

(***************************************************************************)
(* flag__size_calculate_multiplier                                         *)
(***************************************************************************)

\* The constant expression b * b * ... * b (n factors) of type unsigned long
\* long: each `*` is taken modulo 2^64.
RECURSIVE ConstProduct(_, _)
ConstProduct(b, n) ==
    IF n = 1 THEN U64(b) ELSE Mul64(ConstProduct(b, n - 1), U64(b))

\* The strcmp chain over the suffix that follows the numeral; ok is the
\* returned bool, result the value left in *result.
flag__size_calculate_multiplier(suffix, result) ==
    LET Times(m) == [ok |-> TRUE, result |-> Mul64(result, m)]
    IN  CASE suffix = <<"c">> -> Times(U64(1))
          [] suffix = <<"w">> -> Times(U64(2))
          [] suffix = <<"b">> -> Times(U64(512))
          [] suffix = <<"k", "B">> -> Times(U64(1000))
          [] suffix = <<"K">> \/ suffix = <<"K", "i", "B">> -> Times(U64(1024))
          [] suffix = <<"M", "B">> -> Times(ConstProduct(1000, 2))
          [] suffix = <<"M">> \/ suffix = <<"M", "i", "B">> \/ suffix = <<"x", "M">>
               -> Times(ConstProduct(1024, 2))
          [] suffix = <<"G", "B">> -> Times(ConstProduct(1000, 3))
          [] suffix = <<"G">> \/ suffix = <<"G", "i", "B">> -> Times(ConstProduct(1024, 3))
          [] suffix = <<"T", "B">> -> Times(ConstProduct(1000, 4))
          [] suffix = <<"T">> \/ suffix = <<"T", "i", "B">> -> Times(ConstProduct(1024, 4))
          [] suffix = <<"P", "B">> -> Times(ConstProduct(1000, 5))
          [] suffix = <<"P">> \/ suffix = <<"P", "i", "B">> -> Times(ConstProduct(1024, 5))
          [] suffix = <<"E", "B">> -> Times(ConstProduct(1000, 6))
          [] suffix = <<"E">> \/ suffix = <<"E", "i", "B">> -> Times(ConstProduct(1024, 6))
          [] suffix = <<"Z", "B">> -> Times(ConstProduct(1000, 7))
          [] suffix = <<"Z">> \/ suffix = <<"Z", "i", "B">> -> Times(ConstProduct(1024, 7))
          [] suffix = <<"Y", "B">> -> Times(ConstProduct(1000, 8))
          [] suffix = <<"Y">> \/ suffix = <<"Y", "i", "B">> -> Times(ConstProduct(1024, 8))
          [] suffix # <<>> -> [ok |-> FALSE, result |-> result]
          [] OTHER -> [ok |-> TRUE, result |-> result]

(***************************************************************************)
(* strtof / strtod                                                         *)
(*                                                                         *)
(* A floating value is kept as the decimal it was converted from, in       *)
(* normal form: [cls, neg, m, x] stands for (-1)^neg * m * 10^x with m not *)
(* a multiple of ten (the nearest float or double to it), or for an        *)
(* infinity.  Mantissas of the model's inputs have at most nine digits.     *)
(***************************************************************************)

FZero == [cls |-> "fin", neg |-> FALSE, m |-> 0, x |-> 0]

FInf(neg) == [cls |-> "inf", neg |-> neg, m |-> 0, x |-> 0]

RECURSIVE FNorm(_, _)
FNorm(m, x) ==
    IF m = 0 THEN [m |-> 0, x |-> 0]
    ELSE IF m % 10 = 0 THEN FNorm(m \div 10, x + 1)
    ELSE [m |-> m, x |-> x]

FVal(neg, m, x) ==
    LET n == FNorm(m, x) IN [cls |-> "fin", neg |-> neg /\ n.m # 0, m |-> n.m, x |-> n.x]

RECURSIVE NumDigits(_)
NumDigits(m) == IF m < 10 THEN 1 ELSE 1 + NumDigits(m \div 10)

RECURSIVE Pow10(_)
Pow10(n) == IF n = 0 THEN 1 ELSE 10 * Pow10(n - 1)

\* The leading nine digits of m (m has at most nine).
Lead9(m) == m * Pow10(9 - NumDigits(m))

\* The limits of the two formats: the decimal exponent and the leading nine
\* digits of FLT_MAX = 3.40282347e38 and DBL_MAX = 1.79769313...e308, and
\* the decimal exponent below which a value underflows to zero.
FLT == [maxexp |-> 38, maxlead |-> 340282347, minexp |-> -46, max |-> FVal(FALSE, 340282347, 30)]
DBL == [maxexp |-> 308, maxlead |-> 179769313, minexp |-> -324, max |-> FVal(FALSE, 179769313, 300)]

FLT_MAX == FLT.max
DBL_MAX == DBL.max

\* Digits from buf[off] on as a small integer: its value, the number of
\* digits, and where they end.
RECURSIVE ScanInt(_, _, _, _)
ScanInt(buf, off, acc, n) ==
    IF ~IsDigit(CharAt(buf, off))
    THEN [val |-> acc, n |-> n, end |-> off]
    ELSE ScanInt(buf, off + 1, acc * 10 + DigitVal(CharAt(buf, off)), n + 1)

\* strtof (fmt = FLT) and strtod (fmt = DBL): [ws][sign]digits[.digits]
\* [e[sign]digits].  Nothing is converted without a mantissa digit (endptr is
\* the start).  A magnitude above the format's maximum gives HUGE_VAL, an
\* infinity, and sets errno to ERANGE; a nonzero magnitude below its smallest
\* value gives zero and sets errno to ERANGE.
StrtofpRange(fmt, errno0, neg, end, v, mag) ==
    IF v.m # 0 /\ (mag > fmt.maxexp
                    \/ (mag = fmt.maxexp /\ Lead9(v.m) > fmt.maxlead))
    THEN [result |-> FInf(neg), end |-> end, errno |-> ERANGE]
    ELSE IF v.m # 0 /\ mag < fmt.minexp
    THEN [result |-> FVal(neg, 0, 0), end |-> end, errno |-> ERANGE]
    ELSE [result |-> v, end |-> end, errno |-> errno0]

StrtofpValue(fmt, errno0, neg, end, v) ==
    StrtofpRange(fmt, errno0, neg, end, v, v.x + NumDigits(v.m) - 1)

\* With the mantissa read (its digits as the integer m, nfrac of them after
\* the point, ending at mend) and the digits ep after an exponent mark.
StrtofpExp(fmt, buf, errno0, neg, m, nfrac, mend, esign, ep) ==
    IF (CharAt(buf, mend) = "e" \/ CharAt(buf, mend) = "E") /\ ep.n > 0
    THEN StrtofpValue(fmt, errno0, neg, ep.end,
                      FVal(neg, m, (IF esign = "-" THEN -ep.val ELSE ep.val) - nfrac))
    ELSE StrtofpValue(fmt, errno0, neg, mend, FVal(neg, m, -nfrac))

StrtofpMant(fmt, buf, errno0, neg, m, nfrac, mend) ==
    StrtofpExp(fmt, buf, errno0, neg, m, nfrac, mend, CharAt(buf, mend + 1),
               ScanInt(buf, AfterSign(buf, mend + 1), 0, 0))

\* ip: the digits before the point; fp: ip continued by those after it.
StrtofpFrac(fmt, buf, off, errno0, neg, ip, fp) ==
    IF ip.n + fp.n = 0
    THEN [result |-> FZero, end |-> off, errno |-> errno0]
    ELSE StrtofpMant(fmt, buf, errno0, neg, fp.val, fp.n, fp.end)

StrtofpInt(fmt, buf, off, errno0, neg, ip) ==
    StrtofpFrac(fmt, buf, off, errno0, neg, ip,
                IF CharAt(buf, ip.end) = "."
                THEN ScanInt(buf, ip.end + 1, ip.val, 0)
                ELSE [val |-> ip.val, n |-> 0, end |-> ip.end])

StrtofpFrom(fmt, buf, off, errno0, s) ==
    StrtofpInt(fmt, buf, off, errno0, CharAt(buf, s) = "-",
               ScanInt(buf, AfterSign(buf, s), 0, 0))

Strtofp(fmt, buf, off, errno0) ==
    StrtofpFrom(fmt, buf, off, errno0, SkipSpace(buf, off))

(***************************************************************************)
(* The state                                                               *)
(***************************************************************************)

VARIABLES
    fc,         \* the Flag_Context: flags (flags[1..flags_count]), flag_error,
                \* flag_error_name, flag_error_value, program_name, rest_argc,
                \* rest_argv (the offset k of argv + k, or -1 for NULL)
    vars,       \* the caller's variables bound by the *_var functions
    argv,       \* the argument buffers read so far (all of them on return)
    typed,      \* history: the same arguments as the user typed them, before
                \* flag_c_parse wrote into any buffer
    argc0,      \* the argc handed to flag_c_parse
    argc,       \* flag_c_parse's local argc: arguments not yet shifted
    pos,        \* flag_c_parse's local argv, as the number of shifts
    errno,      \* the C library's errno
    push_back,  \* whether the build defines FLAG_PUSH_DASH_DASH_BACK
    fc2,        \* the program's other Flag_Context (the static
                \* flag_global_context, or one more made by flag_c_new): fc is
                \* the one whose address the calls at hand are given
    constraints,
                \* what flag_mandatory and flag_uint64_range attached to the
                \* flags of fc (mandatory, range), and the flags that the
                \* parse has matched (seen)
    stream,     \* what the calls of flag_c_print_options wrote, call by call:
                \* the fprintf calls of each with their arguments
    pc          \* "declare", "scan" (in the loop of flag_c_parse),
                \* "true" / "false" (flag_c_parse returned), "abort"

vars_all ==
    <<fc, vars, argv, typed, argc0, argc, pos, errno, push_back, fc2,
      constraints, stream, pc>>

FlagTypes == {"FLAG_BOOL", "FLAG_UINT64", "FLAG_DOUBLE", "FLAG_FLOAT",
              "FLAG_SIZE", "FLAG_STR", "FLAG_LIST", "FLAG_LIST_MUT"}

\* The types whose occurrence takes a value.
ValueTypes == FlagTypes \ {"FLAG_BOOL"}

ListTypes == {"FLAG_LIST", "FLAG_LIST_MUT"}

\* The name the calling program gives to its flag of each type.
NameOf(type) ==
    CASE type = "FLAG_BOOL" -> <<"b">>
      [] type = "FLAG_UINT64" -> <<"n">>
      [] type = "FLAG_DOUBLE" -> <<"d">>
      [] type = "FLAG_FLOAT" -> <<"f">>
      [] type = "FLAG_SIZE" -> <<"s">>
      [] type = "FLAG_STR" -> <<"t">>
      [] type = "FLAG_LIST" -> <<"l">>
      [] type = "FLAG_LIST_MUT" -> <<"m">>

\* The defaults the calling program may pass with a flag of each type.
DefaultsOf(P, type) ==
    CASE type = "FLAG_BOOL" -> P.booldef
      [] type = "FLAG_UINT64" -> {U64(7)}
      [] type = "FLAG_SIZE" -> {U64(64)}
      [] type = "FLAG_DOUBLE" -> {FVal(FALSE, 25, -1)}
      [] type = "FLAG_FLOAT" -> {FVal(FALSE, 15, -1)}
      [] type = "FLAG_STR" -> {LitDef}
      [] OTHER -> {"none"}

EmptyList == [items |-> <<>>, count |-> 0, capacity |-> 0]

\* A Flag_Value of all zero bytes, seen through the member of its type.
ZeroValue(type) ==
    CASE type = "FLAG_BOOL" -> FALSE
      [] type \in {"FLAG_UINT64", "FLAG_SIZE"} -> U64Zero
      [] type \in {"FLAG_DOUBLE", "FLAG_FLOAT"} -> FZero
      [] type = "FLAG_STR" -> NULL
      [] OTHER -> EmptyList

(***************************************************************************)
(* The registry                                                            *)
(***************************************************************************)

\* flag_c_new: a zeroed context with the given program name.
flag_c_new(program_name) ==
    [flags            |-> <<>>,
     flag_error       |-> "FLAG_NO_ERROR",
     flag_error_name  |-> NULL,
     flag_error_value |-> NULL,
     program_name     |-> program_name,
     rest_argc        |-> 0,
     rest_argv        |-> -1]

\* flag__new_flag past its assertion: the zeroed next slot with type, name
\* and description set.
flag__new_flag(c, type, name, desc) ==
    [c EXCEPT !.flags = Append(@, [type |-> type, name |-> name, desc |-> desc,
                                   val |-> ZeroValue(type), ref |-> 0,
                                   def |-> ZeroValue(type)])]

\* flag__get_ref: where the value of flags[i] lives, the bound variable if
\* there is one and the flag's own val otherwise.
flag__get_ref(c, i) ==
    IF c.flags[i].ref # 0 THEN [var |-> TRUE, at |-> c.flags[i].ref]
    ELSE [var |-> FALSE, at |-> i]

\* *(T*)ref and *(T*)ref = v on the memory of the context and the variables.
Load(c, vs, ref) == IF ref.var THEN vs[ref.at] ELSE c.flags[ref.at].val

StoreFc(c, ref, v) == IF ref.var THEN c ELSE [c EXCEPT !.flags[ref.at].val = v]

StoreVars(vs, ref, v) == IF ref.var THEN [vs EXCEPT ![ref.at] = v] ELSE vs

\* flag_c_bool, flag_c_uint64, ...: def and val are set to the default (the
\* list types have none); the handle returned is &flag->val.
flag_c_declare(c, type, name, def, desc) ==
    IF type \in ListTypes THEN flag__new_flag(c, type, name, desc)
    ELSE [flag__new_flag(c, type, name, desc) EXCEPT
              !.flags[Len(c.flags) + 1].def = def,
              !.flags[Len(c.flags) + 1].val = def]

\* flag_c_declare_var keeping the value in the flag instead of the variable.
flag_c_declare_var_Unbound(c, var, type, name, def, desc) ==
    IF type \in ListTypes
    THEN flag__new_flag(c, type, name, desc)
    ELSE [flag__new_flag(c, type, name, desc) EXCEPT
              !.flags[Len(c.flags) + 1].def = def,
              !.flags[Len(c.flags) + 1].val = def]

\* flag_c_bool_var, flag_c_uint64_var, ...: def is set, ref is the caller's
\* variable, val stays zero.
flag_c_declare_var(c, var, type, name, def, desc) ==
    IF type \in ListTypes
    THEN [flag__new_flag(c, type, name, desc) EXCEPT !.flags[Len(c.flags) + 1].ref = var]
    ELSE [flag__new_flag(c, type, name, desc) EXCEPT
              !.flags[Len(c.flags) + 1].def = def,
              !.flags[Len(c.flags) + 1].ref = var]

\* flag_c_name_from comparing the handle with &flag->val only.
RECURSIVE flag_c_name_from_ValOnly(_, _, _)
flag_c_name_from_ValOnly(c, val, i) ==
    IF i > Len(c.flags) THEN <<>>
    ELSE IF [var |-> FALSE, at |-> i] = val THEN <<c.flags[i].name>>
    ELSE flag_c_name_from_ValOnly(c, val, i + 1)

\* flag_c_name: the name of the first flag whose storage is the handle, or
\* NULL.  The char * returned is <<name>> when it points to a name and <<>>
\* when it is NULL.
RECURSIVE flag_c_name_from(_, _, _)
flag_c_name_from(c, val, i) ==
    IF i > Len(c.flags) THEN <<>>
    ELSE IF flag__get_ref(c, i) = val THEN <<c.flags[i].name>>
    ELSE flag_c_name_from(c, val, i + 1)

\* flag_c_name with its loop starting at the second flag.
flag_c_name_OffByOne(c, val) == flag_c_name_from(c, val, 2)

flag_c_name(c, val) == flag_c_name_from(c, val, 1)

\* flag_name of v1.4.1: the name in the Flag that the handle val lies in, val
\* being the address of the val member of a slot of the context (for any
\* other pointer the subtraction of offsetof(Flag, val) gives no Flag).  A
\* slot not yet used is zeroed: its name is NULL.
flag_name_v1_4_1(c, val) ==
    IF val.at <= Len(c.flags) THEN <<c.flags[val.at].name>> ELSE <<>>

\* flag_list_append allocating for the first item only.
flag_list_append_NoGrowth(list, item) ==
    [items    |-> Append(list.items, item),
     count    |-> list.count + 1,
     capacity |-> IF list.capacity = 0 THEN FLAG_LIST_INIT_CAP ELSE list.capacity]

\* flag_list_append: grow from 0 to FLAG_LIST_INIT_CAP or double when full,
\* then store the item at index count.
flag_list_append(list, item) ==
    [items    |-> Append(list.items, item),
     count    |-> list.count + 1,
     capacity |-> IF list.count >= list.capacity
                  THEN (IF list.capacity = 0 THEN FLAG_LIST_INIT_CAP
                        ELSE list.capacity * 2)
                  ELSE list.capacity]

(***************************************************************************)
(* flag_c_parse                                                            *)
(*                                                                         *)
(* The operators below work on the record st of what flag_c_parse reads    *)
(* and writes: [fc, vars, mem, argc, pos, errno], mem being the argument   *)
(* buffers.  An operator that may return from flag_c_parse gives back the  *)
(* state and ret: how control leaves it.  ret = "more" says that the next  *)
(* argument to shift has not been drawn yet (see ParseIter).               *)
(***************************************************************************)

Min(a, b) == IF a < b THEN a ELSE b

\* flag_shift_args without `*argc -= 1`.
flag_shift_args_KeepsCount(st) == [st EXCEPT !.pos = @ + 1]

\* assert(*argc > 0) of flag_shift_args.
ArgsLeft(st) == st.argc > 0

\* flag_shift_args past its assertion: the shifted argument is argv[pos + 1].
flag_shift_args(st) == [st EXCEPT !.argc = @ - 1, !.pos = @ + 1]

Shifted(st) == [arg |-> st.pos + 1, off |-> 0]

\* Fail recording the whole argument, dash included, as the flag name.
Fail_WholeArgument(st, err, name) ==
    [st  |-> [st EXCEPT !.fc.flag_error = err,
                        !.fc.flag_error_name = [name EXCEPT !.off = 0]],
     ret |-> "false"]

\* return false with flag_error and flag_error_name set.
Fail(st, err, name) ==
    [st  |-> [st EXCEPT !.fc.flag_error = err, !.fc.flag_error_name = name],
     ret |-> "false"]

\* FetchArg reporting the missing value as an unknown flag.
FetchArg_WrongError(st, flag, equals) ==
    IF equals = NULL
    THEN IF st.argc = 0
         THEN [st |-> Fail(st, "FLAG_ERROR_UNKNOWN", flag).st, arg |-> NULL, ret |-> "false"]
         ELSE IF st.pos >= Len(st.mem)
         THEN [st |-> st, arg |-> NULL, ret |-> "more"]
         ELSE [st |-> flag_shift_args(st), arg |-> Shifted(st), ret |-> "ok"]
    ELSE [st |-> st, arg |-> equals, ret |-> "ok"]

\* FetchArg calling flag_shift_args without the test of argc.
FetchArg_NoTest(st, flag, equals) ==
    IF equals = NULL
    THEN IF ~ArgsLeft(st)
         THEN [st |-> st, arg |-> NULL, ret |-> "abort"]
         ELSE IF st.pos >= Len(st.mem)
         THEN [st |-> st, arg |-> NULL, ret |-> "more"]
         ELSE [st |-> flag_shift_args(st), arg |-> Shifted(st), ret |-> "ok"]
    ELSE [st |-> st, arg |-> equals, ret |-> "ok"]

\* The value of an occurrence: the text after '=' when there is one, the
\* next argument otherwise (flag_shift_args, with its assertion),
\* FLAG_ERROR_NO_VALUE when none is left.
FetchArg(st, flag, equals) ==
    IF equals = NULL
    THEN IF st.argc = 0
         THEN [st |-> Fail(st, "FLAG_ERROR_NO_VALUE", flag).st, arg |-> NULL, ret |-> "false"]
         ELSE IF ~ArgsLeft(st)
         THEN [st |-> st, arg |-> NULL, ret |-> "abort"]
         ELSE IF st.pos >= Len(st.mem)
         THEN [st |-> st, arg |-> NULL, ret |-> "more"]
         ELSE [st |-> flag_shift_args(st), arg |-> Shifted(st), ret |-> "ok"]
    ELSE [st |-> st, arg |-> equals, ret |-> "ok"]

\* Assign writing through to the default of the flag as well.
Assign_Default(st, i, ignore, v) ==
    IF ignore THEN st
    ELSE [st EXCEPT !.fc = [StoreFc(@, flag__get_ref(st.fc, i), v) EXCEPT !.flags[i].def = v],
                    !.vars = StoreVars(@, flag__get_ref(st.fc, i), v)]

\* Assign without the test of ignore.
Assign_Ignored(st, i, ignore, v) ==
    [st EXCEPT !.fc = StoreFc(@, flag__get_ref(st.fc, i), v),
               !.vars = StoreVars(@, flag__get_ref(st.fc, i), v)]

\* if (!ignore) *(T*)flag__get_ref(&fc->flags[i]) = v;
Assign(st, i, ignore, v) ==
    IF ignore THEN st
    ELSE [st EXCEPT !.fc = StoreFc(@, flag__get_ref(st.fc, i), v),
                    !.vars = StoreVars(@, flag__get_ref(st.fc, i), v)]

\* case FLAG_LIST / FLAG_LIST_MUT with the argument fetched
CaseList(st, i, ignore, arg) ==
    IF ignore THEN st
    ELSE Assign(st, i, ignore,
                flag_list_append(Load(st.fc, st.vars, flag__get_ref(st.fc, i)), arg))

SetErrno(st, e) == [st EXCEPT !.errno = e]

\* CaseUint64Result storing the numeral's low 32 bits only.
CaseUint64Result_Narrow(st, i, flag, ignore, buf, r) ==
    IF CharAt(buf, r.end) # NUL
    THEN Fail(SetErrno(st, r.errno), "FLAG_ERROR_INVALID_NUMBER", flag)
    ELSE IF r.result = ULLONG_MAX /\ r.errno = ERANGE
    THEN Fail(SetErrno(st, r.errno), "FLAG_ERROR_INTEGER_OVERFLOW", flag)
    ELSE [st  |-> Assign(SetErrno(st, r.errno), i, ignore,
                         <<r.result[1], 0, 0, 0, 0, 0, 0, 0>>),
          ret |-> "break"]

\* case FLAG_UINT64 after `result = strtoull(arg, &endptr, 10)`: buf is the
\* buffer of arg, r what strtoull gave.
CaseUint64Result(st, i, flag, ignore, buf, r) ==
    IF CharAt(buf, r.end) # NUL
    THEN Fail(SetErrno(st, r.errno), "FLAG_ERROR_INVALID_NUMBER", flag)
    ELSE IF r.result = ULLONG_MAX /\ r.errno = ERANGE
    THEN Fail(SetErrno(st, r.errno), "FLAG_ERROR_INTEGER_OVERFLOW", flag)
    ELSE [st |-> Assign(SetErrno(st, r.errno), i, ignore, r.result), ret |-> "break"]

\* CaseUint64 rejecting an argument strtoull converted nothing of.
CaseUint64_RequiresDigits(st, i, flag, ignore, arg) ==
    IF Strtoull(BufOf(st.mem, arg), arg.off, st.errno).end = arg.off
    THEN Fail(st, "FLAG_ERROR_INVALID_NUMBER", flag)
    ELSE CaseUint64Result(st, i, flag, ignore, BufOf(st.mem, arg),
                          Strtoull(BufOf(st.mem, arg), arg.off, st.errno))

\* case FLAG_UINT64 with the argument fetched
CaseUint64(st, i, flag, ignore, arg) ==
    CaseUint64Result(st, i, flag, ignore, BufOf(st.mem, arg),
                     Strtoull(BufOf(st.mem, arg), arg.off, st.errno))

\* case FLAG_FLOAT / FLAG_DOUBLE after `result = strtof(arg, &endptr)`
CaseFloatResult(st, i, flag, ignore, buf, r, fmt, err) ==
    IF CharAt(buf, r.end) # NUL
    THEN Fail(SetErrno(st, r.errno), "FLAG_ERROR_INVALID_NUMBER", flag)
    ELSE IF r.result = fmt.max /\ r.errno = ERANGE
    THEN Fail(SetErrno(st, r.errno), err, flag)
    ELSE [st |-> Assign(SetErrno(st, r.errno), i, ignore, r.result), ret |-> "break"]

\* case FLAG_FLOAT (fmt = FLT) and case FLAG_DOUBLE (fmt = DBL) with the
\* argument fetched
CaseFloat(st, i, flag, ignore, arg, fmt, err) ==
    CaseFloatResult(st, i, flag, ignore, BufOf(st.mem, arg),
                    Strtofp(fmt, BufOf(st.mem, arg), arg.off, st.errno), fmt, err)

\* CaseSizeMultiplied reporting a rejected suffix as an invalid number.
CaseSizeMultiplied_InvalidNumber(st, i, flag, ignore, endptr, m) ==
    IF ~m.ok
    THEN Fail(st, "FLAG_ERROR_INVALID_NUMBER", flag)
    ELSE IF m.result = ULLONG_MAX /\ st.errno = ERANGE
    THEN Fail(st, "FLAG_ERROR_INTEGER_OVERFLOW", flag)
    ELSE [st |-> Assign(st, i, ignore, m.result), ret |-> "break"]

\* case FLAG_SIZE after flag__size_calculate_multiplier(endptr, &result): m
\* is what it gave, st has the errno strtoull left.
CaseSizeMultiplied(st, i, flag, ignore, endptr, m) ==
    IF ~m.ok
    THEN [st  |-> [st EXCEPT !.fc.flag_error = "FLAG_ERROR_INVALID_SIZE_SUFFIX",
                             !.fc.flag_error_name = flag,
                             !.fc.flag_error_value = endptr],
          ret |-> "false"]
    ELSE IF m.result = ULLONG_MAX /\ st.errno = ERANGE
    THEN Fail(st, "FLAG_ERROR_INTEGER_OVERFLOW", flag)
    ELSE [st |-> Assign(st, i, ignore, m.result), ret |-> "break"]

\* CaseSizeResult taking a product of zero from a numeral that is not zero
\* for an overflow.
CaseSizeResult_ZeroProduct(st, i, flag, ignore, arg, r) ==
    IF /\ r.result # U64Zero
       /\ flag__size_calculate_multiplier(
              CStr(st.mem, [arg |-> arg.arg, off |-> r.end]), r.result).ok
       /\ flag__size_calculate_multiplier(
              CStr(st.mem, [arg |-> arg.arg, off |-> r.end]), r.result).result = U64Zero
    THEN Fail(SetErrno(st, r.errno), "FLAG_ERROR_INTEGER_OVERFLOW", flag)
    ELSE CaseSizeMultiplied(SetErrno(st, r.errno), i, flag, ignore,
                            [arg |-> arg.arg, off |-> r.end],
                            flag__size_calculate_multiplier(
                                CStr(st.mem, [arg |-> arg.arg, off |-> r.end]), r.result))

\* case FLAG_SIZE after `result = strtoull(arg, &endptr, 10)`
CaseSizeResult(st, i, flag, ignore, arg, r) ==
    CaseSizeMultiplied(SetErrno(st, r.errno), i, flag, ignore,
                       [arg |-> arg.arg, off |-> r.end],
                       flag__size_calculate_multiplier(
                           CStr(st.mem, [arg |-> arg.arg, off |-> r.end]), r.result))

\* case FLAG_SIZE with the argument fetched
CaseSize(st, i, flag, ignore, arg) ==
    CaseSizeResult(st, i, flag, ignore, arg,
                   Strtoull(BufOf(st.mem, arg), arg.off, st.errno))

\* The cases that take a value, a being what FetchArg gave.
SwitchValue(type, i, flag, ignore, a) ==
    IF a.ret # "ok"
    THEN [st |-> a.st, ret |-> a.ret]
    ELSE CASE type \in ListTypes ->
                [st |-> CaseList(a.st, i, ignore, a.arg), ret |-> "break"]
           [] type = "FLAG_STR" ->
                [st |-> Assign(a.st, i, ignore, a.arg), ret |-> "break"]
           [] type = "FLAG_UINT64" -> CaseUint64(a.st, i, flag, ignore, a.arg)
           [] type = "FLAG_FLOAT" ->
                CaseFloat(a.st, i, flag, ignore, a.arg, FLT, "FLAG_ERROR_FLOAT_OVERFLOW")
           [] type = "FLAG_DOUBLE" ->
                CaseFloat(a.st, i, flag, ignore, a.arg, DBL, "FLAG_ERROR_DOUBLE_OVERFLOW")
           [] type = "FLAG_SIZE" -> CaseSize(a.st, i, flag, ignore, a.arg)

\* SwitchType with case FLAG_BOOL reading an inline value as false.
SwitchType_BoolValue(st, i, flag, equals, ignore) ==
    IF st.fc.flags[i].type = "FLAG_BOOL"
    THEN [st |-> Assign(st, i, ignore, equals = NULL), ret |-> "break"]
    ELSE IF st.fc.flags[i].type \notin FlagTypes
    THEN [st |-> st, ret |-> "abort"]
    ELSE SwitchValue(st.fc.flags[i].type, i, flag, ignore, FetchArg(st, flag, equals))

\* The switch on fc->flags[i].type for the flag whose name matched.
SwitchType(st, i, flag, equals, ignore) ==
    IF st.fc.flags[i].type = "FLAG_BOOL"
    THEN [st |-> Assign(st, i, ignore, TRUE), ret |-> "break"]
    ELSE IF st.fc.flags[i].type \notin FlagTypes
    THEN [st |-> st, ret |-> "abort"]
    ELSE SwitchValue(st.fc.flags[i].type, i, flag, ignore, FetchArg(st, flag, equals))

\* NameMatches comparing only the first strlen(name) characters.
NameMatches_Prefix(st, i, flag) ==
    st.fc.flags[i].name =
        SubSeq(CStr(st.mem, flag), 1, Min(Len(st.fc.flags[i].name), Len(CStr(st.mem, flag))))

\* Whether flags[i] is the flag an occurrence names: strcmp(name, flag) == 0.
NameMatches(st, i, flag) == StrEq(st.fc.flags[i].name, CStr(st.mem, flag))

\* for (i = 0; i < flags_count; ++i) from flag i on: every flag whose name
\* matches is handled (there is no break out of the loop); ret = "done" when
\* the loop ran to its end.  AfterSwitch continues after the switch gave h.
RECURSIVE ForFlags(_, _, _, _, _, _)
RECURSIVE AfterSwitch(_, _, _, _, _, _)
AfterSwitch(h, i, flag, equals, ignore, found) ==
    IF h.ret # "break"
    THEN [st |-> h.st, found |-> found, ret |-> h.ret]
    ELSE ForFlags(h.st, i + 1, flag, equals, ignore, TRUE)

ForFlags(st, i, flag, equals, ignore, found) ==
    IF i > Len(st.fc.flags)
    THEN [st |-> st, found |-> found, ret |-> "done"]
    ELSE IF NameMatches(st, i, flag)
    THEN AfterSwitch(SwitchType(st, i, flag, equals, ignore), i, flag, equals, ignore, found)
    ELSE ForFlags(st, i + 1, flag, equals, ignore, found)

\* ReturnRest resetting the error fields of the context.
ReturnRest_ClearsError(st, argc1, k) ==
    [st  |-> [st EXCEPT !.fc.rest_argc = argc1, !.fc.rest_argv = k,
                        !.fc.flag_error = "FLAG_NO_ERROR",
                        !.fc.flag_error_name = NULL],
     ret |-> "true"]

\* ReturnRest leaving rest_argv at the argument before the rest.
ReturnRest_OneBefore(st, argc1, k) ==
    [st  |-> [st EXCEPT !.fc.rest_argc = argc1, !.fc.rest_argv = Min(k, st.pos - 1)],
     ret |-> "true"]

\* return true with rest set to argc1 arguments from argv + k.
ReturnRest(st, argc1, k) ==
    [st  |-> [st EXCEPT !.fc.rest_argc = argc1, !.fc.rest_argv = k],
     ret |-> "true"]

\* DashDashRest without the FLAG_PUSH_DASH_DASH_BACK branch.
DashDashRest_NoPolicy(st, pushBack) == ReturnRest(st, st.argc, st.pos)

\* The two assignments under `if (strcmp(flag, "--") == 0)`, by build.
DashDashRest(st, pushBack) ==
    IF pushBack THEN ReturnRest(st, st.argc + 1, st.pos - 1)
    ELSE ReturnRest(st, st.argc, st.pos)

\* StripIgnore taking a second dash off as well.
StripIgnore_SecondDash(mem, p) ==
    IF CharAt(BufOf(mem, p), p.off) = "/"
    THEN [ignore |-> TRUE, flag |-> [p EXCEPT !.off = @ + 1]]
    ELSE IF CharAt(BufOf(mem, p), p.off) = "-"
    THEN [ignore |-> FALSE, flag |-> [p EXCEPT !.off = @ + 1]]
    ELSE [ignore |-> FALSE, flag |-> p]

\* The flag pointer after `flag += 1` and the ignore marker.
StripIgnore(mem, p) ==
    IF CharAt(BufOf(mem, p), p.off) = "/"
    THEN [ignore |-> TRUE, flag |-> [p EXCEPT !.off = @ + 1]]
    ELSE [ignore |-> FALSE, flag |-> p]

\* SplitAt leaving the '=' in the argument.
SplitAt_KeepsEquals(mem, eq) ==
    IF eq = NULL THEN [mem |-> mem, equals |-> NULL]
    ELSE [mem |-> mem, equals |-> [eq EXCEPT !.off = @ + 1]]

\* `*equals = '\0'; equals += 1;` when strchr gave eq, an '=' or NULL.
SplitAt(mem, eq) ==
    IF eq = NULL THEN [mem |-> mem, equals |-> NULL]
    ELSE [mem    |-> [mem EXCEPT ![eq.arg][eq.off + 1] = NUL],
          equals |-> [eq EXCEPT !.off = @ + 1]]

SplitEquals(mem, flag) == SplitAt(mem, StrChr(mem, flag, "="))

\* After the loop over the flags gave f: `if (!found)`.
IfNotFound(flag, f) ==
    IF f.ret # "done"
    THEN [st |-> f.st, ret |-> f.ret]
    ELSE IF ~f.found
    THEN [st  |-> [f.st EXCEPT !.fc.flag_error = "FLAG_ERROR_UNKNOWN",
                               !.fc.flag_error_name = flag,
                               !.fc.flag_error_value = flag],
          ret |-> "false"]
    ELSE [st |-> f.st, ret |-> "continue"]

\* The lookup of the flag, with the '=' split off (sp).
LookUp(st, si, sp) ==
    IfNotFound(si.flag,
               ForFlags([st EXCEPT !.mem = sp.mem], 1, si.flag, sp.equals, si.ignore, FALSE))

\* FlagArg without the cut at the '='.
FlagArg_NoSplit(st, si) == LookUp(st, si, [mem |-> st.mem, equals |-> NULL])

\* A flag argument with the dash and the ignore marker removed (si).
FlagArg(st, si) == LookUp(st, si, SplitEquals(st.mem, si.flag))

\* Shifting with the argument that is no flag left shifted (not pushed back).
Shifting_NoPushBack(s1, tok, pushBack) ==
    IF CharAt(s1.mem[tok.arg], 0) # "-"
    THEN ReturnRest(s1, s1.argc, s1.pos)
    ELSE IF CStr(s1.mem, tok) = <<"-", "-">>
    THEN DashDashRest(s1, pushBack)
    ELSE FlagArg(s1, StripIgnore(s1.mem, [tok EXCEPT !.off = 1]))

\* The argument tok is shifted, s1 is the state after the shift.
Shifting(s1, tok, pushBack) ==
    IF CharAt(s1.mem[tok.arg], 0) # "-"
    THEN ReturnRest(s1, s1.argc + 1, s1.pos - 1)
    ELSE IF CStr(s1.mem, tok) = <<"-", "-">>
    THEN DashDashRest(s1, pushBack)
    ELSE FlagArg(s1, StripIgnore(s1.mem, [tok EXCEPT !.off = 1]))

\* One iteration of `while (argc > 0)`, entered with argc > 0.
\* ret: "continue" (next iteration), "true" / "false" (flag_c_parse
\* returned), "abort" (an assertion failed), "more".
LoopBody(st, pushBack) ==
    IF ArgsLeft(st) THEN Shifting(flag_shift_args(st), Shifted(st), pushBack)
    ELSE [st |-> st, ret |-> "abort"]

\* The end of flag_c_parse, reached when the loop ends with argc = 0.
LoopExit(st) == ReturnRest(st, st.argc, st.pos)

(***************************************************************************)
(* The environment: what the calling program declares and what its user    *)
(* types.  A profile P gives the sets the actions draw their inputs from:  *)
(*   types, binds   the flag types declared, and whether the functions    *)
(*                  that bind a variable of the caller are used           *)
(*   progs, push    the program name given to flag_c_new; the build        *)
(*   errnos         errno when flag_c_parse is called                      *)
(*   booldef        the defaults given to a bool flag                      *)
(*   arg0           argv[0] when flag_c_parse consumes the program name    *)
(*   plain          arguments that name no flag                            *)
(*   unknown        flag names that may be typed without being declared    *)
(*   inline, sep    per flag type, the values typed after '=' and as the   *)
(*                  next argument                                          *)
(*   tail           the arguments flag_c_parse returns without reading: a *)
(*                  cycle of arguments, taken by their place in argv      *)
(* The argument vector is drawn as it is read: flag_c_parse never looks at *)
(* an argument before shifting it, so an iteration draws the arguments it  *)
(* shifts, and the arguments left unread are drawn when it returns.        *)
(***************************************************************************)

Dash(name) == <<"-">> \o name

DashIgn(name) == <<"-", "/">> \o name

Inline(tok, v) == tok \o <<"=">> \o v

Names(c) == {c.flags[i].name : i \in 1..Len(c.flags)}

\* The flags declared with a name.
Named(c, name) == {i \in 1..Len(c.flags) : c.flags[i].name = name}

\* The type of the first flag declared with a name ("none" without one).
TypeOfName(c, name) ==
    IF name \in Names(c)
    THEN c.flags[CHOOSE i \in 1..Len(c.flags) :
                    /\ c.flags[i].name = name
                    /\ \A j \in 1..(i - 1) : c.flags[j].name # name].type
    ELSE "none"

\* The flag name an argument carries, read as flag_c_parse reads it.
TokNameAt(tok, flag) == CStr(SplitEquals(<<tok>>, flag).mem, flag)

TokName(tok) == TokNameAt(tok, StripIgnore(<<tok>>, [arg |-> 1, off |-> 1]).flag)

\* The arguments the user may type where a flag is expected.
FlagToks(P, c) ==
    P.plain \cup
    UNION {{Dash(nm), DashIgn(nm)} \cup
           UNION {{Inline(Dash(nm), v), Inline(DashIgn(nm), v)} :
                    v \in P.inline[TypeOfName(c, nm)]} :
             nm \in Names(c) \cup P.unknown}

\* The arguments the user may type after the flag argument tok.
SepToks(P, c, tok) ==
    IF CharAt(tok, 0) = "-" THEN P.sep[TypeOfName(c, TokName(tok))] ELSE {}

(***************************************************************************)
(* Actions                                                                 *)
(***************************************************************************)

Parsing == <<argv, typed, argc0, argc, pos, errno>>

\* flag_c_new
InitP(P) ==
    /\ fc \in {flag_c_new(pn) : pn \in P.progs}
    /\ vars = <<>>
    /\ argv = <<>>
    /\ typed = <<>>
    /\ argc0 = 0
    /\ argc = 0
    /\ pos = 0
    /\ errno = ENONE
    /\ push_back \in P.push
    /\ fc2 = flag_c_new(NULL)
    /\ constraints = [mandatory |-> {}, range |-> {}, seen |-> {}]
    /\ stream = <<>>
    /\ pc = "declare"

\* DeclareVal without the assertion of flag__new_flag.
DeclareVal_NoAssert(P) ==
    /\ pc = "declare"
    /\ \E type \in P.types : \E def \in DefaultsOf(P, type) :
         /\ fc' = flag_c_declare(fc, type, NameOf(type), def, "desc")
         /\ UNCHANGED <<vars, push_back, fc2, stream, pc>>
    /\ UNCHANGED <<Parsing, constraints>>

\* flag_c_bool, flag_c_uint64, flag_c_size, flag_c_float, flag_c_double,
\* flag_c_str, flag_c_list, flag_c_list_mut; the assertion of flag__new_flag
\* fails at capacity.
DeclareVal(P) ==
    /\ pc = "declare"
    /\ \E type \in P.types : \E def \in DefaultsOf(P, type) :
         IF Len(fc.flags) < FLAGS_CAP
         THEN /\ fc' = flag_c_declare(fc, type, NameOf(type), def, "desc")
              /\ UNCHANGED <<vars, push_back, fc2, stream, pc>>
         ELSE /\ pc' = "abort"
              /\ UNCHANGED <<fc, vars, push_back, fc2, stream>>
    /\ UNCHANGED <<Parsing, constraints>>

\* flag_c_bool_var, ..., flag_c_list_mut_var on a fresh variable of the
\* caller: the default is written to it (a list variable is the caller's
\* empty list).
DeclareVar(P) ==
    /\ pc = "declare"
    /\ TRUE \in P.binds
    /\ \E type \in P.types : \E def \in DefaultsOf(P, type) :
         IF Len(fc.flags) < FLAGS_CAP
         THEN /\ fc' = flag_c_declare_var(fc, Len(vars) + 1, type, NameOf(type), def, "desc")
              /\ vars' = Append(vars, IF type \in ListTypes THEN EmptyList ELSE def)
              /\ UNCHANGED <<push_back, fc2, stream, pc>>
         ELSE /\ pc' = "abort"
              /\ UNCHANGED <<fc, vars, push_back, fc2, stream>>
    /\ UNCHANGED <<Parsing, constraints>>

\* ParseEntry taking the first argument as the program name whether or not
\* the context has one.
ParseEntry_AlwaysShifts(P) ==
    /\ pc = "declare"
    /\ errno' \in P.errnos
    /\ \E n \in 0..MaxArgs :
         /\ argc0' = n
         /\ IF n = 0
            THEN /\ pc' = "abort"
                 /\ UNCHANGED <<fc, argv, typed, argc, pos>>
            ELSE \E a0 \in P.arg0 :
                 /\ argv' = argv \o <<a0>>
                 /\ typed' = typed \o <<a0>>
                 /\ fc' = [fc EXCEPT !.program_name = [arg |-> Len(argv) + 1, off |-> 0]]
                 /\ argc' = n - 1
                 /\ pos' = Len(argv) + 1
                 /\ pc' = "scan"
    /\ UNCHANGED <<vars, push_back, fc2, stream, constraints>>

\* The entry of flag_c_parse(c, n, argv): the program name is taken from the
\* first argument when the context has none (flag_shift_args asserts that
\* there is one).  errno is what the caller's earlier library calls left:
\* flag_c_parse reads errno and never assigns it.  The vector is laid out
\* after those of the earlier calls, which stay in memory (the context and
\* the storage point into them).
ParseEntry(P) ==
    /\ pc = "declare"
    /\ errno' \in P.errnos
    /\ \E n \in 0..MaxArgs :
         /\ argc0' = n
         /\ IF fc.program_name # NULL
            THEN /\ argc' = n
                 /\ pos' = Len(argv)
                 /\ pc' = "scan"
                 /\ UNCHANGED <<fc, argv, typed>>
            ELSE IF n = 0
            THEN /\ pc' = "abort"
                 /\ UNCHANGED <<fc, argv, typed, argc, pos>>
            ELSE \E a0 \in P.arg0 :
                 /\ argv' = argv \o <<a0>>
                 /\ typed' = typed \o <<a0>>
                 /\ fc' = [fc EXCEPT !.program_name = [arg |-> Len(argv) + 1, off |-> 0]]
                 /\ argc' = n - 1
                 /\ pos' = Len(argv) + 1
                 /\ pc' = "scan"
    /\ UNCHANGED <<vars, push_back, fc2, stream, constraints>>

\* The record the parse operators work on, with the arguments toks drawn.
StateWith(toks) ==
    [fc |-> fc, vars |-> vars, mem |-> argv \o toks, argc |-> argc,
     pos |-> pos, errno |-> errno]

\* The unread arguments, drawn when flag_c_parse returns after reading k.
Unread(P, k) ==
    {[j \in 1..(Len(argv) + argc - k) |-> tail[((k + j) % Len(tail)) + 1]] :
       tail \in P.tail}

\* Becomes with the error fields kept in storage shared by every context.
Becomes_SharedError(P, toks, r) ==
    /\ fc' = r.st.fc
    /\ fc2' = [fc2 EXCEPT !.flag_error = r.st.fc.flag_error,
                          !.flag_error_name = r.st.fc.flag_error_name]
    /\ vars' = r.st.vars
    /\ argc' = r.st.argc
    /\ pos' = r.st.pos
    /\ errno' = r.st.errno
    /\ pc' = IF r.ret = "continue" THEN "scan" ELSE r.ret
    /\ IF r.ret \in {"true", "false"}
       THEN \E rest \in Unread(P, Len(r.st.mem)) :
              /\ argv' = r.st.mem \o rest
              /\ typed' = typed \o toks \o rest
       ELSE /\ argv' = r.st.mem
            /\ typed' = typed \o toks
    /\ UNCHANGED <<argc0, push_back, stream>>

\* The state after r, a result of LoopBody or LoopExit on the arguments toks.
Becomes(P, toks, r) ==
    /\ fc' = r.st.fc
    /\ vars' = r.st.vars
    /\ argc' = r.st.argc
    /\ pos' = r.st.pos
    /\ errno' = r.st.errno
    /\ pc' = IF r.ret = "continue" THEN "scan" ELSE r.ret
    /\ IF r.ret \in {"true", "false"}
       THEN \E rest \in Unread(P, Len(r.st.mem)) :
              /\ argv' = r.st.mem \o rest
              /\ typed' = typed \o toks \o rest
       ELSE /\ argv' = r.st.mem
            /\ typed' = typed \o toks
    /\ UNCHANGED <<argc0, push_back, fc2, stream>>

\* One iteration of the loop of flag_c_parse on the arguments it shifts: the
\* flag argument and the value arguments of the flags it matches (one at
\* most for each flag declared with the name).
Iterates(P, toks, r) ==
    /\ r.ret # "more"
    /\ r.st.pos = Len(argv) + Len(toks)
    /\ Becomes(P, toks, r)

ParseIter(P) ==
    /\ pc = "scan"
    /\ argc > 0
    /\ \E tok \in FlagToks(P, fc) :
       \E n \in 0..Min(argc - 1, Cardinality(Named(fc, TokName(tok)))) :
       \E vals \in [1..n -> SepToks(P, fc, tok)] :
         Iterates(P, <<tok>> \o vals, LoopBody(StateWith(<<tok>> \o vals), push_back))
    /\ UNCHANGED constraints

\* The loop ends with argc = 0 and flag_c_parse returns true.
ParseExit(P) ==
    /\ pc = "scan"
    /\ argc = 0
    /\ Becomes(P, <<>>, LoopExit(StateWith(<<>>)))
    /\ UNCHANGED constraints

NextP(P) ==
    \/ DeclareVal(P)
    \/ DeclareVar(P)
    \/ ParseEntry(P)
    \/ ParseIter(P)
    \/ ParseExit(P)

(***************************************************************************)
(* Spec: every flag type, bound or not, against short command lines.       *)
(***************************************************************************)

\* A value for each flag type ("none": for a name that is not declared).
ByType(num, flt, str, other) ==
    [t \in FlagTypes \cup {"none"} |->
       CASE t \in {"FLAG_UINT64", "FLAG_SIZE"} -> num
         [] t \in {"FLAG_FLOAT", "FLAG_DOUBLE"} -> flt
         [] t \in {"FLAG_STR"} \cup ListTypes -> str
         [] OTHER -> other]

General ==
    [types   |-> FlagTypes,
     binds   |-> {FALSE, TRUE},
     progs   |-> {NULL},
     push    |-> {FALSE},
     errnos  |-> {ENONE},
     booldef |-> {FALSE, TRUE},
     arg0    |-> {<<"a", ".", "o", "u", "t">>},
     plain   |-> {<<"o", "u", "t">>, <<>>, <<"-", "-">>},
     unknown |-> {<<"q">>, <<"b", "q">>},
     inline  |-> ByType({<<"4", "2">>}, {<<"0", ".", "5">>}, {<<"v">>}, {<<"v">>}),
     sep     |-> ByType({<<"9">>, <<"-", "b">>}, {<<"2", "e", "3">>, <<"-", "b">>},
                        {<<"w">>, <<"-", "b">>}, {}),
     tail    |-> {<< <<"x">>, <<"-", "b">>, <<"y">> >>}]

Init == InitP(General)

Next == NextP(General)

Spec == Init /\ [][Next]_vars_all

(***************************************************************************)
(* SpecDash: both builds (with and without FLAG_PUSH_DASH_DASH_BACK), with *)
(* and without a program name given to flag_c_new.                         *)
(***************************************************************************)

Dashes ==
    [types   |-> {"FLAG_BOOL", "FLAG_STR"},
     binds   |-> {FALSE, TRUE},
     progs   |-> {NULL, LitProg},
     push    |-> {FALSE, TRUE},
     errnos  |-> {ENONE},
     booldef |-> {FALSE},
     arg0    |-> {<<"a", ".", "o", "u", "t">>},
     plain   |-> {<<"o", "u", "t">>, <<"-", "-">>},
     unknown |-> {},
     inline  |-> ByType({}, {}, {<<"v">>}, {}),
     sep     |-> ByType({}, {}, {<<"w">>, <<"-", "-">>}, {}),
     tail    |-> {<< <<"x">>, <<"-", "b">>, <<"y">> >>}]

InitDash == InitP(Dashes)

NextDash == NextP(Dashes)

SpecDash == InitDash /\ [][NextDash]_vars_all

(***************************************************************************)
(* SpecRuns: string flags, in both builds, with flag_c_parse running: while *)
(* it is in its loop the next iteration, or the return at the end of the    *)
(* loop, is taken.                                                          *)
(***************************************************************************)

Strings ==
    [types   |-> {"FLAG_STR"},
     binds   |-> {FALSE, TRUE},
     progs   |-> {NULL, LitProg},
     push    |-> {FALSE, TRUE},
     errnos  |-> {ENONE},
     booldef |-> {FALSE},
     arg0    |-> {<<"a", ".", "o", "u", "t">>},
     plain   |-> {<<"o", "u", "t">>, <<"-", "-">>},
     unknown |-> {<<"q">>},
     inline  |-> ByType({}, {}, {<<"v">>}, {}),
     sep     |-> ByType({}, {}, {<<"w">>, <<"-", "t">>}, {}),
     tail    |-> {<< <<"x">>, <<"-", "t">>, <<"y">> >>}]

InitRuns == InitP(Strings)

NextRuns == NextP(Strings)

SpecRuns ==
    /\ InitRuns /\ [][NextRuns]_vars_all
    /\ WF_<<pc, argc>>(ParseIter(Strings))
    /\ WF_<<pc, argc>>(ParseExit(Strings))

(***************************************************************************)
(* SpecNum: the integer flags, against numerals at the limits of 64 bits   *)
(* and size suffixes, with errno clear or left at ERANGE by a library call *)
(* made before flag_c_parse.                                               *)
(***************************************************************************)

\* 2^64 - 1 and 2^64 in decimal.
MaxText == <<"1", "8", "4", "4", "6", "7", "4", "4", "0", "7",
             "3", "7", "0", "9", "5", "5", "1", "6", "1", "5">>

PastMaxText == <<"1", "8", "4", "4", "6", "7", "4", "4", "0", "7",
                 "3", "7", "0", "9", "5", "5", "1", "6", "1", "6">>

Numeric ==
    [types   |-> {"FLAG_UINT64", "FLAG_SIZE"},
     binds   |-> {FALSE, TRUE},
     progs   |-> {NULL},
     push    |-> {FALSE},
     errnos  |-> {ENONE, ERANGE},
     booldef |-> {FALSE},
     arg0    |-> {<<"a", ".", "o", "u", "t">>},
     plain   |-> {<<"o", "u", "t">>},
     unknown |-> {},
     inline  |-> [t \in FlagTypes \cup {"none"} |->
                    CASE t = "FLAG_UINT64" ->
                           {MaxText, PastMaxText, <<"1", "2", "3", "a", "b", "c">>}
                      [] t = "FLAG_SIZE" ->
                           {MaxText, PastMaxText \o <<"w">>, <<"3", "Q">>, <<"1", "E">>,
                            <<"1", "Z">>, <<"1", "Y">>, <<"1", "Z", "B">>, <<"1", "Y", "B">>}
                      [] OTHER -> {}],
     sep     |-> [t \in FlagTypes \cup {"none"} |->
                    CASE t = "FLAG_UINT64" -> {<<"7">>}
                      [] t = "FLAG_SIZE" -> {<<"2", "K">>, <<"5", "k", "B">>}
                      [] OTHER -> {}],
     tail    |-> {<< <<"x">>, <<"-", "n">>, <<"y">> >>}]

InitNum == InitP(Numeric)

NextNum == NextP(Numeric)

SpecNum == InitNum /\ [][NextNum]_vars_all

(***************************************************************************)
(* SpecVal: the size and floating-point flags, against short numerals with *)
(* characters after them and decimal numbers at the limits of float and    *)
(* double, with errno clear or left at ERANGE before flag_c_parse.         *)
(***************************************************************************)

Scalars ==
    [types   |-> {"FLAG_SIZE", "FLAG_FLOAT", "FLAG_DOUBLE"},
     binds   |-> {FALSE, TRUE},
     progs   |-> {NULL},
     push    |-> {FALSE},
     errnos  |-> {ENONE, ERANGE},
     booldef |-> {FALSE},
     arg0    |-> {<<"a", ".", "o", "u", "t">>},
     plain   |-> {<<"o", "u", "t">>},
     unknown |-> {},
     inline  |-> [t \in FlagTypes \cup {"none"} |->
                    CASE t = "FLAG_SIZE" ->
                           {<<"2", "K">>, <<"2", "K", "x">>, <<"5", "k", "B", "s">>,
                            <<"3", "Q">>, <<"1", "0">>}
                      [] t = "FLAG_FLOAT" ->
                           {<<"1", "e", "3", "9">>, <<"1", "e", "3", "8">>,
                            <<"1", ".", "5", "x">>}
                      [] t = "FLAG_DOUBLE" ->
                           {<<"1", "e", "3", "0", "9">>, <<"1", "e", "3", "9">>,
                            <<"1", ".", "5", "x">>}
                      [] OTHER -> {}],
     sep     |-> [t \in FlagTypes \cup {"none"} |->
                    CASE t = "FLAG_SIZE" -> {<<"4", "c", "c">>}
                      [] t = "FLAG_FLOAT" -> {<<"4", "e", "3", "8">>}
                      [] t = "FLAG_DOUBLE" -> {<<"2", "e", "3", "0", "8">>}
                      [] OTHER -> {}],
     tail    |-> {<< <<"x">>, <<"-", "n">>, <<"y">> >>}]

InitVal == InitP(Scalars)

NextVal == NextP(Scalars)

SpecVal == InitVal /\ [][NextVal]_vars_all

(***************************************************************************)
(* SpecAgain: a program that calls flag_c_parse on the same context more   *)
(* than once, each time with a vector of its own, and may declare flags    *)
(* between the calls.                                                      *)
(***************************************************************************)

\* flag_c_parse is called again while the vectors of the earlier calls hold
\* at most MaxEarlier arguments together.
MaxEarlier == 2

Repeated ==
    [types   |-> {"FLAG_BOOL"},
     binds   |-> {FALSE, TRUE},
     progs   |-> {NULL, LitProg},
     push    |-> {FALSE},
     errnos  |-> {ENONE},
     booldef |-> {FALSE},
     arg0    |-> {<<"a", ".", "o", "u", "t">>, <<"-", "b">>},
     plain   |-> {<<"o", "u", "t">>},
     unknown |-> {<<"q">>},
     inline  |-> ByType({}, {}, {}, {}),
     sep     |-> ByType({}, {}, {}, {}),
     tail    |-> {<< <<"x">>, <<"-", "b">>, <<"y">> >>}]

\* flag_c_parse has returned and the program goes on.
ParseReturn ==
    /\ pc \in {"true", "false"}
    /\ Len(argv) <= MaxEarlier
    /\ pc' = "declare"
    /\ UNCHANGED <<fc, vars, argv, typed, argc0, argc, pos, errno, push_back, fc2, stream, constraints>>

InitAgain == InitP(Repeated)

NextAgain == NextP(Repeated) \/ ParseReturn

SpecAgain == InitAgain /\ [][NextAgain]_vars_all

(***************************************************************************)
(* SpecPair: a program with two contexts, which declares on and parses     *)
(* with either.                                                            *)
(***************************************************************************)

Pair ==
    [types   |-> {"FLAG_STR"},
     binds   |-> {FALSE},
     progs   |-> {NULL},
     push    |-> {FALSE},
     errnos  |-> {ENONE},
     booldef |-> {FALSE},
     arg0    |-> {<<"a", ".", "o", "u", "t">>},
     plain   |-> {<<"o", "u", "t">>},
     unknown |-> {<<"t">>},
     inline  |-> ByType({}, {}, {<<"v">>}, {}),
     sep     |-> ByType({}, {}, {<<"w">>}, {}),
     tail    |-> {<< <<"x">>, <<"-", "t">>, <<"y">> >>}]

\* The program makes its next calls on its other context: it passes the
\* other Flag_Context pointer, or goes from the flag_c_* functions to the
\* wrappers on flag_global_context.
SwitchContext ==
    /\ pc = "declare"
    /\ fc' = fc2
    /\ fc2' = fc
    /\ UNCHANGED <<vars, argv, typed, argc0, argc, pos, errno, push_back,
                   constraints, stream, pc>>

NextPair ==
    \/ DeclareVal(Pair)
    \/ ParseEntry(Pair)
    \/ ParseIter(Pair)
    \/ ParseExit(Pair)
    \/ ParseReturn
    \/ SwitchContext

SpecPair == InitP(Pair) /\ [][NextPair]_vars_all

(***************************************************************************)
(* What the caller observes, and how the typed arguments read              *)
(***************************************************************************)

\* The rest of the command line as the caller reads it after flag_c_parse:
\* the rest_argc strings rest_argv[0], rest_argv[1], ...
RestArgs ==
    [j \in 1..fc.rest_argc |-> CStr(argv, [arg |-> fc.rest_argv + j, off |-> 0])]

\* The arguments args from the k-th on.
From(args, k) == SubSeq(args, k, Len(args))

\* An argument that flag_c_parse reads as a flag: it begins with '-' and is
\* not "--".
IsFlagArg(tok) == CharAt(tok, 0) = "-" /\ tok # <<"-", "-">>

\* Whether a flag argument carries the ignore marker.
IsIgnored(tok) == CharAt(tok, 1) = "/"

\* A flag argument without the dash and the ignore marker.
Body(tok) == SubSeq(tok, IF IsIgnored(tok) THEN 3 ELSE 2, Len(tok))

\* The place of the first '=' in a string, 0 without one.
FirstEq(str) ==
    IF \E i \in 1..Len(str) : str[i] = "="
    THEN CHOOSE i \in 1..Len(str) : str[i] = "=" /\ \A j \in 1..(i - 1) : str[j] # "="
    ELSE 0

HasInline(tok) == FirstEq(Body(tok)) # 0

\* The name a flag argument carries: up to the first '=' when there is one.
NameTyped(tok) ==
    IF HasInline(tok) THEN SubSeq(Body(tok), 1, FirstEq(Body(tok)) - 1) ELSE Body(tok)

\* The inline value of a flag argument: everything after the first '='.
InlineTyped(tok) == SubSeq(Body(tok), FirstEq(Body(tok)) + 1, Len(Body(tok)))

\* An ignore-marked flag argument without its marker.
Unmarked(tok) == <<"-">> \o Body(tok)

\* The first of the flags declared with a name.
FirstNamed(c, name) == CHOOSE i \in Named(c, name) : \A j \in Named(c, name) : i <= j

\* How an iteration r of the loop ends, in the terms of pc.
EndOf(r) == IF r.ret = "continue" THEN "scan" ELSE r.ret

\* The state at a flag position (pc = "scan") with the arguments that the
\* step to the next state reads put in its place: the typed arguments of
\* the next state from the first unread one on, the first of them being tok.
Retyped(tok) ==
    [fc |-> fc, vars |-> vars, argc |-> argc, pos |-> pos, errno |-> errno,
     mem |-> argv \o <<tok>> \o From(typed', pos + 2)]

\* The state at a flag position with the flag argument tok, typed with an
\* inline value, typed as two arguments instead: the flag and the value.
Separated(tok) ==
    [fc |-> fc, vars |-> vars, argc |-> argc + 1, pos |-> pos, errno |-> errno,
     mem |-> argv \o <<SubSeq(tok, 1, Len(tok) - Len(Body(tok))) \o NameTyped(tok),
                       InlineTyped(tok)>>
                  \o From(typed', pos + 2)]

\* What the caller reads from the storage of flags[i]: a string by its
\* characters, a list by the characters of its items.
Shown(type, v, mem) ==
    CASE type = "FLAG_STR" -> IF v = NULL THEN <<NUL>> ELSE CStr(mem, v)
      [] type \in ListTypes -> [k \in 1..v.count |-> CStr(mem, v.items[k])]
      [] OTHER -> v

Storage(c, vs, mem) ==
    [i \in 1..Len(c.flags) |->
       Shown(c.flags[i].type, Load(c, vs, flag__get_ref(c, i)), mem)]

\* Whether the flag argument tok at a flag position comes with a value, and
\* the value: the text after the first '=', the next argument without one.
HasValue(tok) == HasInline(tok) \/ argc >= 2

ValueTyped(tok) == IF HasInline(tok) THEN InlineTyped(tok) ELSE typed'[pos + 2]

\* Whether name is declared once, with the type.
DeclaredOnce(c, name, type) ==
    Cardinality(Named(c, name)) = 1 /\ c.flags[FirstNamed(c, name)].type = type

\* A decimal numeral: digits and nothing else; Decimal is its value, with
\* over saying that it is above 2^64-1, and for any string the value of its
\* leading digits and their number (end).
IsNumeral(v) == v # <<>> /\ \A k \in 1..Len(v) : IsDigit(v[k])

Decimal(v) == ScanDigits(v, 0, U64Zero, FALSE)

\* n times each of the factors (small numbers): the low 64 bits, and whether
\* the product fits in 64 bits.
RECURSIVE ScaledFrom(_, _, _)
RECURSIVE ScaledBy(_, _, _)
ScaledBy(fits, factors, r) ==
    IF r.carry # 0 THEN ScaledFrom(r.val, FALSE, Tail(factors))
    ELSE ScaledFrom(r.val, fits, Tail(factors))

ScaledFrom(acc, fits, factors) ==
    IF factors = <<>> THEN [val |-> acc, fits |-> fits]
    ELSE ScaledBy(fits, factors, MulAddSmall(acc, Head(factors), 0))

Scaled(n, factors) == ScaledFrom(n, TRUE, factors)

\* b^k as its k factors.
Power(b, k) == [j \in 1..k |-> b]

\* The table of size suffixes up to G and the multiplier of each.
SuffixesToG ==
    { <<>>, <<"c">>, <<"w">>, <<"b">>, <<"k", "B">>, <<"K">>, <<"K", "i", "B">>,
      <<"M", "B">>, <<"M">>, <<"M", "i", "B">>, <<"x", "M">>,
      <<"G", "B">>, <<"G">>, <<"G", "i", "B">> }

MultiplierToG(sfx) ==
    CASE sfx \in {<<>>, <<"c">>} -> <<>>
      [] sfx = <<"w">> -> <<2>>
      [] sfx = <<"b">> -> <<512>>
      [] sfx = <<"k", "B">> -> Power(1000, 1)
      [] sfx \in {<<"K">>, <<"K", "i", "B">>} -> Power(1024, 1)
      [] sfx = <<"M", "B">> -> Power(1000, 2)
      [] sfx \in {<<"M">>, <<"M", "i", "B">>, <<"x", "M">>} -> Power(1024, 2)
      [] sfx = <<"G", "B">> -> Power(1000, 3)
      [] sfx \in {<<"G">>, <<"G", "i", "B">>} -> Power(1024, 3)

\* The letters T, P, E, Z, Y with their exponents, and the suffixes made of
\* them: X and XiB (binary), XB (decimal).
LargeLetters == <<"T", "P", "E", "Z", "Y">>

LargeSuffixes ==
    UNION {{<<LargeLetters[k]>>, <<LargeLetters[k], "i", "B">>, <<LargeLetters[k], "B">>} :
             k \in 1..5}

MultiplierLarge(sfx) ==
    Power(IF sfx[Len(sfx)] = "B" /\ Len(sfx) = 2 THEN 1000 ELSE 1024,
          3 + (CHOOSE k \in 1..5 : LargeLetters[k] = sfx[1]))

\* The suffix of a size value: what follows its leading digits.
SuffixOf(v) == SubSeq(v, Decimal(v).end + 1, Len(v))

\* The storage of flags[i] in the next state.
StoredNext(i) == Load(fc', vars', flag__get_ref(fc', i))

\* flag_c_parse returns false from the step with the error err, no storage
\* written.
FailsWith(err) ==
    /\ pc' = "false"
    /\ fc'.flag_error = err
    /\ fc'.flags = fc.flags
    /\ vars' = vars

(***************************************************************************)
(* The claims                                                              *)
(***************************************************************************)

\* C1: when the argument at a flag position (pc = "scan", an argument left)
\* does not begin with '-', flag_c_parse returns true and the rest is that
\* argument followed by all the remaining ones, in order and as typed.
C1_NonFlagStops ==
    [][(pc = "scan" /\ argc > 0 /\ CharAt(typed'[pos + 1], 0) # "-")
         => /\ pc' = "true"
            /\ fc'.rest_argc = argc
            /\ RestArgs' = From(typed', pos + 1)
            /\ From(argv', pos + 1) = From(typed', pos + 1)]_vars_all

\* C1 witness: flag_c_parse returned at the first argument after the program
\* name, no flag, with one more argument behind it.
C1_Witness ==
    /\ pc = "true"
    /\ fc.rest_argv = 1
    /\ fc.rest_argc = 2
    /\ RestArgs[1] = <<"o", "u", "t">>

\* C2: when the argument at a flag position is exactly "--", flag_c_parse
\* returns true; by default the rest is the arguments after the "--", and
\* with FLAG_PUSH_DASH_DASH_BACK it is the "--" followed by them.
C2_DashDashStops ==
    [][(pc = "scan" /\ argc > 0 /\ typed'[pos + 1] = <<"-", "-">>)
         => /\ pc' = "true"
            /\ IF push_back
               THEN /\ fc'.rest_argc = argc
                    /\ RestArgs' = From(typed', pos + 1)
               ELSE /\ fc'.rest_argc = argc - 1
                    /\ RestArgs' = From(typed', pos + 2)]_vars_all

\* C2 witness: in the default build, flag_c_parse returned at a "--" typed
\* as the first argument, and the rest is the two arguments after it.
C2_Witness ==
    /\ pc = "true"
    /\ ~push_back
    /\ fc.rest_argv = 1
    /\ typed[1] = <<"-", "-">>
    /\ fc.rest_argc = 2
    /\ RestArgs = SubSeq(typed, 2, 3)

\* A well-formed value for each flag type, what it denotes (for a list,
\* appended to the old items), and the storage expected after an occurrence
\* of flags[i].
C3_WellFormed(type, tok) ==
    CASE type = "FLAG_BOOL" -> ~HasInline(tok)
      [] type = "FLAG_UINT64" ->
           /\ HasValue(tok)
           /\ IsNumeral(ValueTyped(tok))
           /\ ~Decimal(ValueTyped(tok)).over
      [] type = "FLAG_SIZE" ->
           /\ HasValue(tok)
           /\ Decimal(ValueTyped(tok)).end > 0
           /\ ~Decimal(ValueTyped(tok)).over
           /\ SuffixOf(ValueTyped(tok)) \in SuffixesToG
           /\ Scaled(Decimal(ValueTyped(tok)).val,
                     MultiplierToG(SuffixOf(ValueTyped(tok)))).fits
      [] type \in {"FLAG_FLOAT", "FLAG_DOUBLE"} ->
           /\ HasValue(tok)
           /\ IsDigit(CharAt(ValueTyped(tok), 0))
           /\ Strtofp(IF type = "FLAG_FLOAT" THEN FLT ELSE DBL,
                       ValueTyped(tok), 0, ENONE).end = Len(ValueTyped(tok))
           /\ Strtofp(IF type = "FLAG_FLOAT" THEN FLT ELSE DBL,
                       ValueTyped(tok), 0, ENONE).errno = ENONE
      [] OTHER -> HasValue(tok)

C3_Denoted(type, v, old) ==
    CASE type = "FLAG_BOOL" -> TRUE
      [] type = "FLAG_UINT64" -> Decimal(v).val
      [] type = "FLAG_SIZE" -> Scaled(Decimal(v).val, MultiplierToG(SuffixOf(v))).val
      [] type = "FLAG_FLOAT" -> Strtofp(FLT, v, 0, ENONE).result
      [] type = "FLAG_DOUBLE" -> Strtofp(DBL, v, 0, ENONE).result
      [] type = "FLAG_STR" -> v
      [] OTHER -> old \o <<v>>

C3_Outcome(i, tok) ==
    /\ pc' = "scan"
    /\ Storage(fc', vars', argv') =
         IF IsIgnored(tok) THEN Storage(fc, vars, argv)
         ELSE [Storage(fc, vars, argv) EXCEPT
                 ![i] = C3_Denoted(fc.flags[i].type, ValueTyped(tok), @)]

\* C3 as stated, occurrence by occurrence: with distinct names declared, an
\* occurrence of a declared flag with a well-formed value lets the parse go
\* on; not ignored, it leaves the denoted value in the storage of its flag (a
\* list gets it appended) and every other storage as it was, and ignored it
\* leaves every storage as it was.  So a vector of such occurrences
\* succeeds with the last values, the lists in order, and the defaults.
C3_WellFormedVector ==
    [][(/\ pc = "scan" /\ argc > 0
        /\ IsFlagArg(typed'[pos + 1])
        /\ \A i, j \in 1..Len(fc.flags) : fc.flags[i].name = fc.flags[j].name => i = j
        /\ NameTyped(typed'[pos + 1]) \in Names(fc)
        /\ C3_WellFormed(TypeOfName(fc, NameTyped(typed'[pos + 1])), typed'[pos + 1]))
         => C3_Outcome(FirstNamed(fc, NameTyped(typed'[pos + 1])), typed'[pos + 1])]_vars_all

\* C4: an ignore-marked occurrence of a declared flag reads as many
\* arguments and ends in the same way (success, or the same flag_error) as
\* the occurrence without the marker would from the same state, and leaves
\* every flag's storage, val or bound variable, as it was.
C4_IgnoredOccurrence ==
    [][(/\ pc = "scan" /\ argc > 0
        /\ IsFlagArg(typed'[pos + 1]) /\ IsIgnored(typed'[pos + 1])
        /\ NameTyped(typed'[pos + 1]) \in Names(fc))
         => /\ LoopBody(Retyped(Unmarked(typed'[pos + 1])), push_back).st.pos = pos'
            /\ EndOf(LoopBody(Retyped(Unmarked(typed'[pos + 1])), push_back)) = pc'
            /\ pc' = "false" =>
                 LoopBody(Retyped(Unmarked(typed'[pos + 1])), push_back).st.fc.flag_error
                     = fc'.flag_error
            /\ fc'.flags = fc.flags
            /\ vars' = vars]_vars_all

\* C4 witness: an ignored occurrence of a list flag with its value was read
\* and the loop goes on, the list still empty.
C4_Witness ==
    /\ pc = "scan"
    /\ pos = 3
    /\ typed[2] = <<"-", "/", "l">>
    /\ typed[3] = <<"w">>
    /\ \E i \in 1..Len(fc.flags) :
         /\ fc.flags[i].type = "FLAG_LIST"
         /\ Load(fc, vars, flag__get_ref(fc, i)).count = 0

\* C5: a flag argument whose name equals no declared name makes
\* flag_c_parse return false with FLAG_ERROR_UNKNOWN and that name as
\* flag_error_name; only the flag argument itself was shifted and no storage
\* was written.
C5_UnknownFlag ==
    [][(/\ pc = "scan" /\ argc > 0
        /\ IsFlagArg(typed'[pos + 1])
        /\ NameTyped(typed'[pos + 1]) \notin Names(fc))
         => /\ pc' = "false"
            /\ fc'.flag_error = "FLAG_ERROR_UNKNOWN"
            /\ CStr(argv', fc'.flag_error_name) = NameTyped(typed'[pos + 1])
            /\ pos' = pos + 1
            /\ argc' = argc - 1
            /\ fc'.flags = fc.flags
            /\ vars' = vars]_vars_all

\* C5 witness: -bq was typed with a flag b declared and an argument behind
\* it; flag_c_parse returned false naming bq, the argument behind unread.
C5_Witness ==
    /\ pc = "false"
    /\ fc.flag_error = "FLAG_ERROR_UNKNOWN"
    /\ CStr(argv, fc.flag_error_name) = <<"b", "q">>
    /\ <<"b">> \in Names(fc)
    /\ typed[pos] = <<"-", "b", "q">>
    /\ pos < Len(typed)

\* C6 as stated: a flag that takes a value, typed without '=', fails with
\* FLAG_ERROR_NO_VALUE and stores nothing both when it is the last argument
\* and when the argument after it begins with a dash.
C6_MissingValueBeforeFlag ==
    [][(/\ pc = "scan" /\ argc > 0
        /\ IsFlagArg(typed'[pos + 1]) /\ ~HasInline(typed'[pos + 1])
        /\ TypeOfName(fc, NameTyped(typed'[pos + 1])) \in ValueTypes
        /\ (argc = 1 \/ CharAt(typed'[pos + 2], 0) = "-"))
         => /\ pc' = "false"
            /\ fc'.flag_error = "FLAG_ERROR_NO_VALUE"
            /\ fc'.flags = fc.flags
            /\ vars' = vars]_vars_all

\* C6 amended: a flag that takes a value, typed without '=', fails with
\* FLAG_ERROR_NO_VALUE naming it, nothing stored, when it is the last
\* argument.  When an argument follows, that argument is shifted as the
\* value of the first flag of that name whether or not it begins with a
\* dash (a string flag stores it), and a name declared once does not fail
\* with FLAG_ERROR_NO_VALUE.
C6_MissingValueAtEnd ==
    [][(/\ pc = "scan" /\ argc > 0
        /\ IsFlagArg(typed'[pos + 1]) /\ ~HasInline(typed'[pos + 1])
        /\ TypeOfName(fc, NameTyped(typed'[pos + 1])) \in ValueTypes)
         => IF argc = 1
            THEN /\ pc' = "false"
                 /\ fc'.flag_error = "FLAG_ERROR_NO_VALUE"
                 /\ CStr(argv', fc'.flag_error_name) = NameTyped(typed'[pos + 1])
                 /\ fc'.flags = fc.flags
                 /\ vars' = vars
            ELSE /\ pos' >= pos + 2
                 /\ (/\ TypeOfName(fc, NameTyped(typed'[pos + 1])) = "FLAG_STR"
                     /\ ~IsIgnored(typed'[pos + 1]))
                      => CStr(argv', Load(fc', vars',
                                flag__get_ref(fc', FirstNamed(fc, NameTyped(typed'[pos + 1])))))
                           = typed'[pos + 2]
                 /\ Cardinality(Named(fc, NameTyped(typed'[pos + 1]))) = 1
                      => ~(pc' = "false" /\ fc'.flag_error = "FLAG_ERROR_NO_VALUE")]_vars_all

\* C6 witness: -t -b was typed with a string flag t declared once: the -b
\* was stored as the value of t and the loop goes on.
C6_Witness ==
    /\ pc = "scan"
    /\ pos = 3
    /\ typed[2] = <<"-", "t">>
    /\ typed[3] = <<"-", "b">>
    /\ Cardinality(Named(fc, <<"t">>)) = 1
    /\ CStr(argv, Load(fc, vars, flag__get_ref(fc, FirstNamed(fc, <<"t">>)))) = <<"-", "b">>

\* C7 as stated: for a flag that takes a value, -name=v reads no further
\* argument, and ends in the same way with the same storage as the two
\* arguments -name v would from the same state.
C7_InlineAsSeparate ==
    [][(/\ pc = "scan" /\ argc > 0
        /\ IsFlagArg(typed'[pos + 1]) /\ HasInline(typed'[pos + 1])
        /\ TypeOfName(fc, NameTyped(typed'[pos + 1])) \in ValueTypes)
         => /\ pos' = pos + 1
            /\ EndOf(LoopBody(Separated(typed'[pos + 1]), push_back)) = pc'
            /\ pc' = "false" =>
                 LoopBody(Separated(typed'[pos + 1]), push_back).st.fc.flag_error
                     = fc'.flag_error
            /\ Storage(LoopBody(Separated(typed'[pos + 1]), push_back).st.fc,
                       LoopBody(Separated(typed'[pos + 1]), push_back).st.vars,
                       LoopBody(Separated(typed'[pos + 1]), push_back).st.mem)
                 = Storage(fc', vars', argv')]_vars_all

\* What is expected of the step for the value v of the uint64 flag flags[i].
C8_Outcome(i, v) ==
    CASE IsNumeral(v) /\ ~Decimal(v).over ->
           pc' = "scan" /\ StoredNext(i) = Decimal(v).val
      [] IsNumeral(v) /\ Decimal(v).over -> FailsWith("FLAG_ERROR_INTEGER_OVERFLOW")
      [] Decimal(v).end > 0 /\ Decimal(v).end < Len(v) ->
           FailsWith("FLAG_ERROR_INVALID_NUMBER")
      [] OTHER -> TRUE

\* C8 as stated: for a uint64 flag a numeral followed by other characters
\* fails with FLAG_ERROR_INVALID_NUMBER and a numeral above 2^64-1 with
\* FLAG_ERROR_INTEGER_OVERFLOW, the storage keeping its value; a numeral
\* within 0..2^64-1 is stored exactly.
C8_UInt64Values ==
    [][(/\ pc = "scan" /\ argc > 0
        /\ IsFlagArg(typed'[pos + 1]) /\ ~IsIgnored(typed'[pos + 1])
        /\ DeclaredOnce(fc, NameTyped(typed'[pos + 1]), "FLAG_UINT64")
        /\ HasValue(typed'[pos + 1]))
         => C8_Outcome(FirstNamed(fc, NameTyped(typed'[pos + 1])),
                       ValueTyped(typed'[pos + 1]))]_vars_all

\* What is expected of the step for the numeral n with the suffix sfx given
\* to the size flag flags[i], sfx within or without the table up to G.
C9_Outcome(i, n, sfx) ==
    CASE sfx \in SuffixesToG /\ Scaled(n, MultiplierToG(sfx)).fits ->
           pc' = "scan" /\ StoredNext(i) = Scaled(n, MultiplierToG(sfx)).val
      [] sfx \notin SuffixesToG \cup LargeSuffixes ->
           FailsWith("FLAG_ERROR_INVALID_SIZE_SUFFIX")
      [] OTHER -> TRUE

\* C9 as stated: for a size flag a numeral n with a suffix of the table up
\* to G stores n times the multiplier of the suffix whenever the product
\* fits in 64 bits; a suffix that is not empty and not in the table (the
\* one of C10 included) fails with FLAG_ERROR_INVALID_SIZE_SUFFIX, nothing
\* stored.
C9_SizeSuffixes ==
    [][(/\ pc = "scan" /\ argc > 0
        /\ IsFlagArg(typed'[pos + 1]) /\ ~IsIgnored(typed'[pos + 1])
        /\ DeclaredOnce(fc, NameTyped(typed'[pos + 1]), "FLAG_SIZE")
        /\ HasValue(typed'[pos + 1])
        /\ Decimal(ValueTyped(typed'[pos + 1])).end > 0
        /\ ~Decimal(ValueTyped(typed'[pos + 1])).over)
         => C9_Outcome(FirstNamed(fc, NameTyped(typed'[pos + 1])),
                       Decimal(ValueTyped(typed'[pos + 1])).val,
                       SuffixOf(ValueTyped(typed'[pos + 1])))]_vars_all

\* What is expected of the step for the numeral n with a suffix sfx of T, P,
\* E, Z, Y given to the size flag flags[i].
C10_Outcome(i, n, sfx) ==
    /\ Scaled(n, MultiplierLarge(sfx)).fits =>
         pc' = "scan" /\ StoredNext(i) = Scaled(n, MultiplierLarge(sfx)).val
    /\ (n = U64(1) /\ sfx[1] \in {"Z", "Y"}) =>
         pc' = "scan" /\ StoredNext(i) # U64Zero

\* C10 as stated: for a size flag a numeral n with one of the suffixes of T,
\* P, E, Z, Y stores n times 1024^k (X, XiB) or 1000^k (XB), k = 4..8, when
\* the product fits in 64 bits, and the numeral 1 with Z, Y, ZB or YB stores
\* a value that is not zero.
C10_LargeSuffixes ==
    [][(/\ pc = "scan" /\ argc > 0
        /\ IsFlagArg(typed'[pos + 1]) /\ ~IsIgnored(typed'[pos + 1])
        /\ DeclaredOnce(fc, NameTyped(typed'[pos + 1]), "FLAG_SIZE")
        /\ HasValue(typed'[pos + 1])
        /\ Decimal(ValueTyped(typed'[pos + 1])).end > 0
        /\ ~Decimal(ValueTyped(typed'[pos + 1])).over
        /\ SuffixOf(ValueTyped(typed'[pos + 1])) \in LargeSuffixes
        /\ errno = ENONE)
         => C10_Outcome(FirstNamed(fc, NameTyped(typed'[pos + 1])),
                        Decimal(ValueTyped(typed'[pos + 1])).val,
                        SuffixOf(ValueTyped(typed'[pos + 1])))]_vars_all

\* C11 as stated: for a size flag a value whose numeral is above 2^64-1,
\* with the empty suffix or any suffix of the table, fails with
\* FLAG_ERROR_INTEGER_OVERFLOW and stores nothing.
C11_SizeNumeralOverflow ==
    [][(/\ pc = "scan" /\ argc > 0
        /\ IsFlagArg(typed'[pos + 1]) /\ ~IsIgnored(typed'[pos + 1])
        /\ DeclaredOnce(fc, NameTyped(typed'[pos + 1]), "FLAG_SIZE")
        /\ HasValue(typed'[pos + 1])
        /\ Decimal(ValueTyped(typed'[pos + 1])).over
        /\ SuffixOf(ValueTyped(typed'[pos + 1])) \in SuffixesToG \cup LargeSuffixes)
         => FailsWith("FLAG_ERROR_INTEGER_OVERFLOW")]_vars_all


\* The suffixes flag__size_calculate_multiplier accepts, and a size value
\* whose numeral is followed by one of them (not the empty one) and by more
\* characters.
Recognized == SuffixesToG \cup LargeSuffixes

PastSuffix(v) ==
    /\ Decimal(v).end > 0
    /\ SuffixOf(v) \notin Recognized
    /\ \E sfx \in Recognized \ {<<>>} :
         /\ Len(sfx) < Len(SuffixOf(v))
         /\ SubSeq(SuffixOf(v), 1, Len(sfx)) = sfx

\* C12 as stated: a size value with characters left after the numeral and a
\* recognized suffix (`2Kx`) fails with FLAG_ERROR_INVALID_NUMBER.
C12_RemainderInvalidNumber ==
    [][(/\ pc = "scan" /\ argc > 0
        /\ IsFlagArg(typed'[pos + 1])
        /\ TypeOfName(fc, NameTyped(typed'[pos + 1])) = "FLAG_SIZE"
        /\ HasValue(typed'[pos + 1])
        /\ PastSuffix(ValueTyped(typed'[pos + 1])))
         => /\ pc' = "false"
            /\ fc'.flag_error = "FLAG_ERROR_INVALID_NUMBER"]_vars_all

\* C12 amended: for a size flag everything after the numeral is the suffix,
\* compared as a whole with the table: when it is not in the table (`2Kx` as
\* much as `3Q`) flag_c_parse fails with FLAG_ERROR_INVALID_SIZE_SUFFIX,
\* recording the flag name and the whole remainder as flag_error_value and
\* writing no storage; a size occurrence never fails with
\* FLAG_ERROR_INVALID_NUMBER.
C12_RemainderIsTheSuffix ==
    [][(/\ pc = "scan" /\ argc > 0
        /\ IsFlagArg(typed'[pos + 1])
        /\ TypeOfName(fc, NameTyped(typed'[pos + 1])) = "FLAG_SIZE"
        /\ HasValue(typed'[pos + 1]))
         => /\ fc'.flag_error # "FLAG_ERROR_INVALID_NUMBER"
            /\ SuffixOf(ValueTyped(typed'[pos + 1])) \notin Recognized
                 => /\ FailsWith("FLAG_ERROR_INVALID_SIZE_SUFFIX")
                    /\ CStr(argv', fc'.flag_error_name) = NameTyped(typed'[pos + 1])
                    /\ CStr(argv', fc'.flag_error_value)
                         = SuffixOf(ValueTyped(typed'[pos + 1]))]_vars_all

C12_Witness ==
    /\ pc = "false"
    /\ fc.flag_error = "FLAG_ERROR_INVALID_SIZE_SUFFIX"
    /\ CStr(argv, fc.flag_error_value) = <<"K", "x">>


\* The format and the overflow error of a floating-point flag type.
FormatOf(type) == IF type = "FLAG_FLOAT" THEN FLT ELSE DBL

OverflowOf(type) ==
    IF type = "FLAG_FLOAT" THEN "FLAG_ERROR_FLOAT_OVERFLOW" ELSE "FLAG_ERROR_DOUBLE_OVERFLOW"

\* What is expected of the step for the value v of a flag of a
\* floating-point type, r being what strtof (strtod) gives for v with errno
\* clear before the call.
C13_Outcome(type, v, r) ==
    CASE r.end < Len(v) -> FailsWith("FLAG_ERROR_INVALID_NUMBER")
      [] r.end = Len(v) /\ r.result.cls = "inf" /\ r.errno = ERANGE ->
           FailsWith(OverflowOf(type))
      [] OTHER -> TRUE

\* C13 as stated: for a float (double) flag a value on which strtof (strtod)
\* reports overflow, returning HUGE_VALF (HUGE_VAL) with errno = ERANGE,
\* fails with FLAG_ERROR_FLOAT_OVERFLOW (FLAG_ERROR_DOUBLE_OVERFLOW) and
\* leaves the storage as it was; a value with characters after the number
\* fails with FLAG_ERROR_INVALID_NUMBER.
C13_FloatValues ==
    [][(/\ pc = "scan" /\ argc > 0
        /\ IsFlagArg(typed'[pos + 1])
        /\ TypeOfName(fc, NameTyped(typed'[pos + 1])) \in {"FLAG_FLOAT", "FLAG_DOUBLE"}
        /\ HasValue(typed'[pos + 1]))
         => C13_Outcome(TypeOfName(fc, NameTyped(typed'[pos + 1])),
                        ValueTyped(typed'[pos + 1]),
                        Strtofp(FormatOf(TypeOfName(fc, NameTyped(typed'[pos + 1]))),
                                ValueTyped(typed'[pos + 1]), 0, ENONE))]_vars_all


\* C14: an entry of flag_c_parse (on a vector for which the assertion of
\* flag_shift_args holds) takes the first argument as the program name,
\* leaving the others to be scanned, exactly when the context has no program
\* name; with a program name, given to flag_c_new or taken by an earlier
\* flag_c_parse, it takes nothing and the first argument is scanned: when
\* it does not begin with '-', the whole vector is the rest; when it is a
\* flag, it is looked up.  No step changes a program name that is not NULL.
C14_ProgramName ==
    [][/\ (pc = "declare" /\ pc' = "scan")
            => IF fc.program_name = NULL
               THEN /\ argc' = argc0' - 1
                    /\ pos' = Len(argv) + 1
                    /\ Len(argv') = Len(argv) + 1
                    /\ CStr(argv', fc'.program_name) = typed'[Len(argv) + 1]
               ELSE /\ argc' = argc0'
                    /\ pos' = Len(argv)
                    /\ argv' = argv
                    /\ fc' = fc
       /\ (pc = "scan" /\ argc > 0 /\ argc = argc0)
            => /\ pos' > pos
               /\ CharAt(typed'[pos + 1], 0) # "-"
                    => /\ pc' = "true"
                       /\ fc'.rest_argc = argc0
                       /\ RestArgs' = From(typed', pos + 1)
               /\ (IsFlagArg(typed'[pos + 1])
                     /\ NameTyped(typed'[pos + 1]) \notin Names(fc))
                    => /\ pc' = "false"
                       /\ fc'.flag_error = "FLAG_ERROR_UNKNOWN"
                       /\ CStr(argv', fc'.flag_error_name) = NameTyped(typed'[pos + 1])
               /\ (IsFlagArg(typed'[pos + 1]) /\ ~IsIgnored(typed'[pos + 1])
                     /\ DeclaredOnce(fc, NameTyped(typed'[pos + 1]), "FLAG_BOOL"))
                    => StoredNext(FirstNamed(fc, NameTyped(typed'[pos + 1]))) = TRUE
       /\ fc.program_name # NULL => fc'.program_name = fc.program_name]_vars_all

\* C14 witness: a later flag_c_parse (the memory holds an earlier vector, whose
\* first argument is the program name) has returned its whole vector, which
\* begins with an argument that is no flag, as the rest.
C14_Witness ==
    /\ pc = "true"
    /\ fc.program_name = [arg |-> 1, off |-> 0]
    /\ argc0 > 0
    /\ Len(argv) > argc0
    /\ fc.rest_argc = argc0


\* Where the vector of the current flag_c_parse begins in memory (argv + 0),
\* once flag_c_parse has returned.
VectorBase == Len(argv) - argc0

\* The rest is the last rest_argc arguments of the vector, in place: rest_argv
\* is argv + k with 0 <= k <= argc and rest_argc = argc - k, and the strings
\* read through it are the arguments as typed.
RestIsSuffix ==
    /\ fc.rest_argv - VectorBase \in 0..argc0
    /\ fc.rest_argc = argc0 - (fc.rest_argv - VectorBase)
    /\ RestArgs = From(typed, fc.rest_argv + 1)
    /\ From(argv, fc.rest_argv + 1) = From(typed, fc.rest_argv + 1)

\* C15: whenever flag_c_parse returns true the rest is a suffix of its
\* vector, left in place and as typed, and it is empty when the loop ended
\* with every argument taken as program name, flag or value.
C15_RestSuffix ==
    [][(pc = "scan" /\ pc' = "true")
         => /\ RestIsSuffix'
            /\ argc = 0 => fc'.rest_argc = 0
            /\ fc'.rest_argc = 0 => fc'.rest_argv = Len(argv')]_vars_all

\* C15 witness: flag_c_parse returned true with the last of three arguments
\* as the rest, after the program name and a flag.
C15_Witness ==
    /\ pc = "true"
    /\ argc0 = 3
    /\ fc.rest_argc = 1
    /\ fc.rest_argv = 2
    /\ IsFlagArg(typed[2])


\* The last of the flags declared with a name.
LastNamed(c, name) == CHOOSE i \in Named(c, name) : \A j \in Named(c, name) : j <= i

\* The flags that a failing occurrence of name leaves as they were: all but
\* those of the name that come before the one at which it failed (the last
\* of the name at the latest).
KeptOnFailure(c, name) ==
    {i \in 1..Len(c.flags) : i \notin Named(c, name) \/ i = LastNamed(c, name)}

\* C16: the step in which flag_c_parse fails ends it (return false): the
\* arguments read are the flag argument and what was consumed as value for it
\* (nothing with an inline value or with an unknown flag, and nothing is
\* left with a missing value), the arguments behind them are left unread as
\* typed, no other
\* storage is written, and the context holds the error, the flag name
\* without the dash, the ignore marker and the `=value` part, and for
\* FLAG_ERROR_UNKNOWN and FLAG_ERROR_INVALID_SIZE_SUFFIX the offending
\* text (the unknown name, the suffix) as flag_error_value.
C16_FailsAtOnce ==
    [][(pc = "scan" /\ pc' = "false")
         => /\ fc'.flag_error # "FLAG_NO_ERROR"
            /\ IsFlagArg(typed'[pos + 1])
            /\ fc'.flag_error_name.arg = pos + 1
            /\ CStr(argv', fc'.flag_error_name) = NameTyped(typed'[pos + 1])
            /\ pos' >= pos + 1
            /\ pos' <= pos + 1 + Cardinality(Named(fc, NameTyped(typed'[pos + 1])))
            /\ argc' = argc - (pos' - pos)
            /\ (HasInline(typed'[pos + 1]) \/ fc'.flag_error = "FLAG_ERROR_UNKNOWN")
                 => pos' = pos + 1
            /\ fc'.flag_error = "FLAG_ERROR_NO_VALUE" => argc' = 0
            /\ From(argv', pos' + 1) = From(typed', pos' + 1)
            /\ \A i \in KeptOnFailure(fc, NameTyped(typed'[pos + 1])) :
                 /\ fc'.flags[i] = fc.flags[i]
                 /\ StoredNext(i) = Load(fc, vars, flag__get_ref(fc, i))
            /\ fc'.flag_error = "FLAG_ERROR_UNKNOWN"
                 => /\ NameTyped(typed'[pos + 1]) \notin Names(fc)
                    /\ fc'.flag_error_value = fc'.flag_error_name
            /\ fc'.flag_error = "FLAG_ERROR_INVALID_SIZE_SUFFIX"
                 => /\ fc'.flag_error_value.arg
                         = (IF HasInline(typed'[pos + 1]) THEN pos + 1 ELSE pos')
                    /\ CStr(argv', fc'.flag_error_value)
                         = SuffixOf(IF HasInline(typed'[pos + 1])
                                    THEN InlineTyped(typed'[pos + 1])
                                    ELSE typed'[pos'])]_vars_all

\* C16 witness: flag_c_parse failed at `-/q=v`, q not declared, with the
\* name q recorded and an argument left unread.
C16_Witness ==
    /\ pc = "false"
    /\ fc.flag_error = "FLAG_ERROR_UNKNOWN"
    /\ typed[pos] = <<"-", "/", "q", "=", "v">>
    /\ CStr(argv, fc.flag_error_name) = <<"q">>
    /\ CStr(argv, fc.flag_error_value) = <<"q">>
    /\ argc = 1


\* C17 as stated: the occurrence at which flag_c_parse fails writes no
\* storage, so that every Option holds what the occurrences before it left
\* there: an occurrence that does not fail writes the Options of its name
\* when it is not ignored and no other Option, and the failing one writes
\* nothing.
C17_FailureKeepsEarlierWrites ==
    [][(pc = "scan" /\ argc > 0 /\ IsFlagArg(typed'[pos + 1]))
         => /\ pc' = "false"
                 => Storage(fc', vars', argv') = Storage(fc, vars, argv)
            /\ pc' = "scan"
                 => \A i \in 1..Len(fc.flags) :
                      (i \notin Named(fc, NameTyped(typed'[pos + 1]))
                         \/ IsIgnored(typed'[pos + 1]))
                        => Storage(fc', vars', argv')[i] = Storage(fc, vars, argv)[i]]_vars_all


\* The bool flags whose storage holds true.
TrueBools(c, vs) ==
    {i \in 1..Len(c.flags) :
       c.flags[i].type = "FLAG_BOOL" /\ Load(c, vs, flag__get_ref(c, i)) = TRUE}

\* C18: an occurrence of a bool flag takes its own argument and no other
\* (the next one is the next to be scanned) and does not fail; not ignored,
\* it sets the storage of the flags of its name to true, ignored, it writes
\* nothing; no other storage is written, and no step of flag_c_parse makes
\* a bool that is true false.
C18_BoolOccurrence ==
    [][/\ (/\ pc = "scan" /\ argc > 0
           /\ IsFlagArg(typed'[pos + 1])
           /\ TypeOfName(fc, NameTyped(typed'[pos + 1])) = "FLAG_BOOL")
            => /\ pc' = "scan"
               /\ pos' = pos + 1
               /\ argc' = argc - 1
               /\ Len(typed') = Len(typed) + 1
               /\ fc'.flag_error = fc.flag_error
               /\ \A i \in 1..Len(fc.flags) :
                    StoredNext(i) =
                      IF i \in Named(fc, NameTyped(typed'[pos + 1]))
                           /\ ~IsIgnored(typed'[pos + 1])
                      THEN TRUE
                      ELSE Load(fc, vars, flag__get_ref(fc, i))
       /\ pc = "scan" => TrueBools(fc, vars) \subseteq TrueBools(fc', vars')]_vars_all

\* C18 witness: after `-b out` flag_c_parse returned true with the bool set
\* and `out` as the rest.
C18_Witness ==
    /\ pc = "true"
    /\ Len(typed) = 3
    /\ typed[2] = <<"-", "b">>
    /\ RestArgs = << <<"o", "u", "t">> >>
    /\ TrueBools(fc, vars) = Named(fc, <<"b">>)
    /\ \E i \in Named(fc, <<"b">>) : fc.flags[i].def = FALSE


\* The handle a declare function returned for flags[i] (&flag->val), and the
\* address of the k-th variable of the caller.
HandleOf(i) == [var |-> FALSE, at |-> i]

AddressOf(k) == [var |-> TRUE, at |-> k]

\* C19: at any time flag_c_name gives, for the handle returned when a flag
\* was declared and for the address of the variable given when a flag was
\* declared with a *_var function, the name given then; it gives NULL for
\* the address of a variable that was not given to the context, for the
\* slot of a flag bound to a variable and for a slot not yet used.
C19_NameOfHandle ==
    /\ \A i \in 1..Len(fc.flags) :
         IF fc.flags[i].ref = 0
         THEN flag_c_name(fc, HandleOf(i)) = <<fc.flags[i].name>>
         ELSE /\ flag_c_name(fc, AddressOf(fc.flags[i].ref)) = <<fc.flags[i].name>>
              /\ flag_c_name(fc, HandleOf(i)) = <<>>
    /\ \A k \in 1..(Len(vars) + 1) :
         (\A i \in 1..Len(fc.flags) : fc.flags[i].ref # k)
           => flag_c_name(fc, AddressOf(k)) = <<>>
    /\ \A i \in (Len(fc.flags) + 1)..FLAGS_CAP : flag_c_name(fc, HandleOf(i)) = <<>>

\* C19 witness: flag_c_parse has returned in a context with a flag declared
\* by handle and a flag of another name bound to a variable, each found by
\* flag_c_name.
C19_Witness ==
    /\ pc = "true"
    /\ Len(fc.flags) = 2
    /\ fc.flags[1].ref = 0
    /\ fc.flags[2].ref = 1
    /\ fc.flags[1].name # fc.flags[2].name
    /\ flag_c_name(fc, HandleOf(1)) = <<fc.flags[1].name>>
    /\ flag_c_name(fc, AddressOf(1)) = <<fc.flags[2].name>>


\* The flags of a name that are bound to a variable of the caller.
BoundNamed(c, name) == {i \in Named(c, name) : c.flags[i].ref # 0}

\* C20: a *_var function of a type with a default writes the default to the
\* caller's variable and makes it the storage of the flag (flag__get_ref);
\* the storage of a flag is the variable or its own val from its declaration
\* on and never changes; the val of a bound flag is never written and a
\* variable is written only for a flag bound to it; and an occurrence that
\* is not ignored writes the variable of each bound flag of its name (true
\* for a bool, the inline value for a string or a uint64).
C20_BoundVariable ==
    [][/\ (pc = "declare" /\ Len(vars') = Len(vars) + 1)
            => /\ Len(fc'.flags) = Len(fc.flags) + 1
               /\ flag__get_ref(fc', Len(fc'.flags)) = AddressOf(Len(vars'))
               /\ fc'.flags[Len(fc'.flags)].type \notin ListTypes
                    => vars'[Len(vars')] = fc'.flags[Len(fc'.flags)].def
       /\ \A i \in 1..Len(fc.flags) :
            /\ flag__get_ref(fc', i) = flag__get_ref(fc, i)
            /\ fc.flags[i].ref # 0 => fc'.flags[i].val = ZeroValue(fc.flags[i].type)
       /\ \A k \in 1..Len(vars) :
            vars'[k] # vars[k]
              => /\ pc = "scan" /\ argc > 0
                 /\ \E i \in BoundNamed(fc, NameTyped(typed'[pos + 1])) : fc.flags[i].ref = k
       /\ (/\ pc = "scan" /\ argc > 0 /\ pc' = "scan"
           /\ IsFlagArg(typed'[pos + 1]) /\ ~IsIgnored(typed'[pos + 1]))
            => \A i \in BoundNamed(fc, NameTyped(typed'[pos + 1])) :
                 CASE fc.flags[i].type = "FLAG_BOOL" -> vars'[fc.flags[i].ref] = TRUE
                   [] fc.flags[i].type = "FLAG_STR" /\ HasInline(typed'[pos + 1]) ->
                        CStr(argv', vars'[fc.flags[i].ref]) = InlineTyped(typed'[pos + 1])
                   [] fc.flags[i].type = "FLAG_UINT64" /\ HasInline(typed'[pos + 1])
                        /\ IsNumeral(InlineTyped(typed'[pos + 1])) ->
                        vars'[fc.flags[i].ref] = Decimal(InlineTyped(typed'[pos + 1])).val
                   [] OTHER -> TRUE]_vars_all

\* C20 witness: flag_c_parse returned true after `-t=v` with the string flag
\* t bound to a variable, which points to `v`, the val of the flag being
\* NULL still.
C20_Witness ==
    /\ pc = "true"
    /\ Len(fc.flags) >= 1
    /\ fc.flags[1].type = "FLAG_STR"
    /\ fc.flags[1].ref = 1
    /\ fc.flags[1].val = NULL
    /\ fc.flags[1].def = LitDef
    /\ CStr(argv, vars[1]) = <<"v">>


\* C21: a declare call that returns adds one flag, after the flags there
\* are, which stay as they were; a declare call fails an assertion (the
\* only one that can fail in a context with a program name) only with
\* FLAGS_CAP flags declared, and adds none; no step removes a flag, and
\* there are never more than FLAGS_CAP.
C21_FlagsCap ==
    [][/\ Len(fc'.flags) <= FLAGS_CAP
       /\ Len(fc'.flags) \in {Len(fc.flags), Len(fc.flags) + 1}
       /\ SubSeq(fc'.flags, 1, Len(fc.flags)) = fc.flags \/ pc # "declare"
       /\ Len(fc'.flags) = Len(fc.flags) + 1
            => pc = "declare" /\ pc' = "declare" /\ Len(fc.flags) < FLAGS_CAP
       /\ (pc = "declare" /\ pc' = "abort" /\ fc.program_name # NULL)
            => Len(fc.flags) = FLAGS_CAP /\ fc' = fc /\ vars' = vars]_vars_all

\* C21 witness: a declare call was made with FLAGS_CAP flags declared.
C21_Witness ==
    /\ pc = "abort"
    /\ fc.program_name # NULL
    /\ Len(fc.flags) = FLAGS_CAP
    /\ fc.flags[1].type # fc.flags[FLAGS_CAP].type


C23_Terminates ==
    /\ [][pc = "scan"
            => /\ pc' = "scan" => argc' < argc /\ argc' >= 0
               /\ pc' \in {"scan", "true", "false"}
               /\ argc' <= argc /\ pos' + argc' = pos + argc]_vars_all
    /\ (pc = "scan") ~> (pc \in {"true", "false"})

\* C23 witness: flag_c_parse returned true at the end of a vector of MaxArgs
\* arguments, having read them all in several iterations.
C23_Witness ==
    /\ pc = "true"
    /\ argc0 = MaxArgs
    /\ argc = 0
    /\ fc.rest_argc = 0
    /\ \A k \in 1..Len(typed) : IsFlagArg(typed[k]) /\ ~HasInline(typed[k])
    /\ fc.program_name = LitProg

\* C24: contexts are isolated.  A call made on one context (a declaration, or
\* a step of a parse) leaves the other context of the program as it was in
\* every field (its flags with their values, program name, rest and error
\* fields) and leaves the strings its pointers lead to as they read; the
\* other context changes place with this one only when the program turns to
\* it, between calls.  A flag argument whose name is declared in the other
\* context only is an unknown flag of the parse.
C24_Isolated ==
    [][/\ \/ fc2' = fc2
          \/ pc = "declare" /\ pc' = "declare" /\ fc2' = fc /\ fc' = fc2
       /\ fc2.program_name # NULL =>
            CStr(argv', fc2.program_name) = CStr(argv, fc2.program_name)
       /\ \A i \in 1..Len(fc2.flags) :
            fc2.flags[i].val # NULL =>
              CStr(argv', fc2.flags[i].val) = CStr(argv, fc2.flags[i].val)
       /\ (/\ pc = "scan" /\ argc > 0
           /\ IsFlagArg(typed'[pos + 1])
           /\ NameTyped(typed'[pos + 1]) \in Names(fc2) \ Names(fc))
          => /\ pc' = "false"
             /\ fc'.flag_error = "FLAG_ERROR_UNKNOWN"
             /\ CStr(argv', fc'.flag_error_name) = NameTyped(typed'[pos + 1])
             /\ fc'.flags = fc.flags]_vars_all

\* The second context of the program fails on the name that the first one,
\* which has parsed a value for it, declares.
C24_Witness ==
    /\ pc = "false"
    /\ fc.flag_error = "FLAG_ERROR_UNKNOWN"
    /\ fc.flags = <<>>
    /\ CStr(argv, fc.flag_error_name) = <<"t">>
    /\ fc2.program_name # NULL
    /\ fc2.flag_error = "FLAG_NO_ERROR"
    /\ Len(fc2.flags) = 1
    /\ CStr(argv, fc2.flags[1].val) = <<"v">>

(***************************************************************************)
(* SpecLimits: flags with a range and mandatory flags.  example.c calls    *)
(* flag_mandatory and flag_uint64_range; the flag.h that defines them is   *)
(* not among the sources, so what they do is taken from the specification: *)
(* an inclusive bound on an integer flag, checked when a value has been    *)
(* parsed for it, and a mark on a flag that is checked when the argument   *)
(* vector is exhausted without a failure.                                  *)
(***************************************************************************)

Limits ==
    [types   |-> {"FLAG_UINT64", "FLAG_STR"},
     binds   |-> {FALSE, TRUE},
     progs   |-> {NULL},
     push    |-> {FALSE},
     errnos  |-> {ENONE},
     booldef |-> {FALSE},
     arg0    |-> {<<"a", ".", "o", "u", "t">>},
     plain   |-> {<<"o", "u", "t">>},
     unknown |-> {},
     inline  |-> ByType({<<"5", "1", "2">>, <<"2", "0", "0", "0">>}, {}, {<<"v">>}, {}),
     sep     |-> ByType({<<"1", "0", "2", "4">>, <<"2", "0", "0", "0">>}, {}, {}, {}),
     tail    |-> {<< <<"x">>, <<"-", "n">>, <<"y">> >>}]

\* The bounds the calling program passes to flag_uint64_range.
Ranges == {<<U64(0), U64(1024)>>, <<U64(1024), U64(0)>>}

\* a <= b for 64-bit values.
U64Le(a, b) ==
    \A i \in Limbs : a[i] > b[i] => \E j \in Limbs : j > i /\ a[j] < b[j]

\* flag_mandatory(handle): the flag of the handle is marked.
flag_mandatory ==
    /\ pc = "declare"
    /\ \E i \in 1..Len(fc.flags) :
         constraints' = [constraints EXCEPT !.mandatory = @ \cup {i}]
    /\ UNCHANGED <<fc, vars, Parsing, push_back, fc2, stream, pc>>

\* flag_uint64_range(handle, min, max): the bound is attached to the flag of
\* the handle, in place of the one it had; min > max is fatal.
flag_uint64_range ==
    /\ pc = "declare"
    /\ \E i \in 1..Len(fc.flags) : \E b \in Ranges :
         /\ fc.flags[i].type = "FLAG_UINT64"
         /\ IF U64Le(b[1], b[2])
            THEN /\ constraints' =
                      [constraints EXCEPT !.range =
                         {c \in @ : c.flag # i} \cup
                         {[flag |-> i, min |-> b[1], max |-> b[2]]}]
                 /\ pc' = pc
            ELSE /\ pc' = "abort"
                 /\ UNCHANGED constraints
    /\ UNCHANGED <<fc, vars, Parsing, push_back, fc2, stream>>

\* The argument that holds the value of flags[j] in the occurrence toks: the
\* text after '=', or the argument that the flag takes in its turn.
ValueArg(toks, j) ==
    IF HasInline(toks[1]) THEN InlineTyped(toks[1])
    ELSE toks[1 + Cardinality({k \in Named(fc, TokName(toks[1])) : k <= j})]

\* The flags of the occurrence toks whose value is outside their bound.
OutOfRange(toks) ==
    {j \in Named(fc, TokName(toks[1])) :
       \E c \in constraints.range :
         /\ c.flag = j
         /\ ~ /\ U64Le(c.min, Strtoull(ValueArg(toks, j), 0, ENONE).result)
              /\ U64Le(Strtoull(ValueArg(toks, j), 0, ENONE).result, c.max)}

\* The iteration r of the loop on the arguments toks with the bounds checked:
\* a value parsed for a flag (ignored or not) and outside the bound of the
\* flag is a failure of its own kind, and is not stored.
RangeChecked(toks, r) ==
    IF r.ret = "continue" /\ OutOfRange(toks) # {}
    THEN Fail([r.st EXCEPT !.fc.flags = fc.flags, !.vars = vars],
              "FLAG_ERROR_OUT_OF_RANGE",
              StripIgnore(r.st.mem, [arg |-> pos + 1, off |-> 1]).flag)
    ELSE r

\* MatchedBy counting the ignored occurrences too.
MatchedBy_Ignored(toks, r) ==
    IF r.ret = "continue"
    THEN [constraints EXCEPT !.seen = @ \cup Named(fc, TokName(toks[1]))]
    ELSE constraints

\* The flags matched once the iteration r has handled the occurrence toks:
\* an ignored occurrence matches none.
MatchedBy(toks, r) ==
    IF r.ret = "continue" /\ ~IsIgnored(toks[1])
    THEN [constraints EXCEPT !.seen = @ \cup Named(fc, TokName(toks[1]))]
    ELSE constraints

\* The end r of flag_c_parse with the marks checked: a mandatory flag that no
\* occurrence matched is a failure of its own kind.
MandatoryChecked(r) ==
    IF r.ret = "true" /\ constraints.mandatory \ constraints.seen # {}
    THEN [st  |-> [r.st EXCEPT !.fc.flag_error = "FLAG_ERROR_MANDATORY"],
          ret |-> "false"]
    ELSE r

IteratesChecked(P, toks, r) ==
    /\ Iterates(P, toks, r)
    /\ constraints' = MatchedBy(toks, r)

\* ParseIter with the bound of the flag checked.
ParseIterLimits(P) ==
    /\ pc = "scan"
    /\ argc > 0
    /\ \E tok \in FlagToks(P, fc) :
       \E n \in 0..Min(argc - 1, Cardinality(Named(fc, TokName(tok)))) :
       \E vals \in [1..n -> SepToks(P, fc, tok)] :
         IteratesChecked(P, <<tok>> \o vals,
                         RangeChecked(<<tok>> \o vals,
                                      LoopBody(StateWith(<<tok>> \o vals), push_back)))

\* ParseExit with the mandatory flags checked.
ParseExitLimits(P) ==
    /\ pc = "scan"
    /\ argc = 0
    /\ Becomes(P, <<>>, MandatoryChecked(LoopExit(StateWith(<<>>))))
    /\ UNCHANGED constraints

NextLimits ==
    \/ DeclareVal(Limits)
    \/ DeclareVar(Limits)
    \/ flag_mandatory
    \/ flag_uint64_range
    \/ ParseEntry(Limits)
    \/ ParseIterLimits(Limits)
    \/ ParseExitLimits(Limits)

SpecLimits == InitP(Limits) /\ [][NextLimits]_vars_all


OccurrenceTyped(i) ==
    \E k \in 2..Len(typed) :
      /\ IsFlagArg(typed[k]) /\ ~IsIgnored(typed[k])
      /\ NameTyped(typed[k]) = fc.flags[i].name

\* C26: when flag_c_parse has consumed the whole vector without a failure
\* (the loop ends with argc = 0) and a flag marked by flag_mandatory was
\* named by no occurrence other than ignored ones, flag_c_parse returns
\* false with the error of a missing mandatory flag, which is not
\* FLAG_ERROR_UNKNOWN; otherwise it returns true.  No step taken while
\* arguments remain gives that error: an argument that is no flag ends the
\* parse with true whatever is marked.
C26_MandatoryChecked ==
    [][pc = "scan" =>
         /\ argc = 0 =>
              IF \E i \in constraints.mandatory : ~OccurrenceTyped(i)
              THEN /\ pc' = "false"
                   /\ fc'.flag_error = "FLAG_ERROR_MANDATORY"
                   /\ fc'.flag_error # "FLAG_ERROR_UNKNOWN"
              ELSE pc' = "true" /\ fc'.flag_error = "FLAG_NO_ERROR"
         /\ argc > 0 => fc'.flag_error # "FLAG_ERROR_MANDATORY"
         /\ (argc > 0 /\ ~IsFlagArg(typed'[pos + 1])) => pc' = "true"]_vars_all

\* The mandatory flag was typed only with the ignore marker.
C26_Witness ==
    /\ pc = "false"
    /\ fc.flag_error = "FLAG_ERROR_MANDATORY"
    /\ Len(typed) = 2
    /\ typed[2] = <<"-", "/", "t", "=", "v">>
    /\ constraints.mandatory = {1}
    /\ fc.flags[1].type = "FLAG_STR"


(***************************************************************************)
(* SpecHelp: the program prints the options, before or after flag_c_parse. *)
(***************************************************************************)

\* How often the program calls flag_c_print_options.
MaxHelp == 2

\* fprintf(stream, fmt, args...): the call as the stream receives it.
Fprintf(fmt, args) == [fmt |-> fmt, args |-> args]

\* The first line of the entry of a flag, by type.
HeadLine(type) ==
    CASE type \in ListTypes -> "    -%s <str> ... -%s <str> ...\n"
      [] type = "FLAG_BOOL" -> "    -%s\n"
      [] type \in {"FLAG_UINT64", "FLAG_SIZE"} -> "    -%s <int>\n"
      [] type = "FLAG_FLOAT" -> "    -%s <float>\n"
      [] type = "FLAG_DOUBLE" -> "    -%s <double>\n"
      [] type = "FLAG_STR" -> "    -%s <str>\n"

\* The line of the default of a flag, when its case prints one.
DefaultLine(flag, mem) ==
    CASE flag.type \in ListTypes -> <<>>
      [] flag.type = "FLAG_BOOL" ->
           IF flag.def THEN <<Fprintf("        Default: %s\n", <<"true">>)>> ELSE <<>>
      [] flag.type = "FLAG_UINT64" ->
           <<Fprintf("        Default: %PRIu64\n", <<flag.def>>)>>
      [] flag.type = "FLAG_FLOAT" -> <<Fprintf("        Default: %f\n", <<flag.def>>)>>
      [] flag.type = "FLAG_DOUBLE" -> <<Fprintf("        Default: %lf\n", <<flag.def>>)>>
      [] flag.type = "FLAG_SIZE" -> <<Fprintf("        Default: %zu\n", <<flag.def>>)>>
      [] flag.type = "FLAG_STR" ->
           IF flag.def # NULL
           THEN <<Fprintf("        Default: %s\n", <<CStr(mem, flag.def)>>)>>
           ELSE <<>>

\* The body of the loop of flag_c_print_options for one flag.
PrintFlag(flag, mem) ==
    << Fprintf(HeadLine(flag.type),
               IF flag.type \in ListTypes THEN <<flag.name, flag.name>>
               ELSE <<flag.name>>),
       Fprintf("        %s\n", <<flag.desc>>) >>
    \o DefaultLine(flag, mem)

\* The loop of flag_c_print_options running from the last flag to the first.
RECURSIVE PrintFrom_Backwards(_, _, _)
PrintFrom_Backwards(c, mem, i) ==
    IF i > Len(c.flags) THEN <<>>
    ELSE PrintFrom_Backwards(c, mem, i + 1) \o PrintFlag(c.flags[i], mem)

\* for (i = 0; i < fc->flags_count; ++i) from flag i on.
RECURSIVE PrintFrom(_, _, _)
PrintFrom(c, mem, i) ==
    IF i > Len(c.flags) THEN <<>>
    ELSE PrintFlag(c.flags[i], mem) \o PrintFrom(c, mem, i + 1)

\* flag_c_print_options(c, stream), called before flag_c_parse or after it
\* returned.
flag_c_print_options ==
    /\ pc \in {"declare", "true", "false"}
    /\ Len(stream) < MaxHelp
    /\ stream' = Append(stream, PrintFrom(fc, argv, 1))
    /\ UNCHANGED <<fc, vars, Parsing, push_back, fc2, constraints, pc>>

NextHelp == NextP(Dashes) \/ flag_c_print_options

SpecHelp == InitP(Dashes) /\ [][NextHelp]_vars_all


\* The first lines of the entries among the fprintf calls of one
\* flag_c_print_options.
IsHeadLine(f) == f.fmt \in {HeadLine(t) : t \in FlagTypes}

EntriesOf(out) == SelectSeq(out, IsHeadLine)

\* C27: flag_c_print_options only reads the context.  A call leaves the
\* context (flags with their values and defaults, error fields, rest,
\* program name), the bound variables and everything else but the stream
\* as they were; it writes one entry for each flag, in the order of
\* declaration; and when no flag was declared since the call before it, it
\* writes what that call wrote, whatever was parsed in between.
C27_PrintReadsOnly ==
    [][stream' # stream =>
         /\ fc' = fc /\ vars' = vars /\ argv' = argv /\ errno' = errno
         /\ fc2' = fc2 /\ pc' = pc /\ argc' = argc /\ pos' = pos
         /\ Len(stream') = Len(stream) + 1
         /\ SubSeq(stream', 1, Len(stream)) = stream
         /\ Len(EntriesOf(stream'[Len(stream')])) = Len(fc.flags)
         /\ \A i \in 1..Len(fc.flags) :
              EntriesOf(stream'[Len(stream')])[i].args[1] = fc.flags[i].name
         /\ (/\ stream # <<>>
             /\ Len(EntriesOf(stream[Len(stream)])) = Len(fc.flags))
            => stream'[Len(stream')] = stream[Len(stream)]]_vars_all

\* The options of two flags were printed twice, the second time after
\* flag_c_parse stored a value and then failed.
C27_Witness ==
    /\ Len(stream) = 2
    /\ stream[1] = stream[2]
    /\ Len(EntriesOf(stream[2])) = 2
    /\ fc.flags[1].name # fc.flags[2].name
    /\ pc = "false"
    /\ \E i \in 1..2 : /\ fc.flags[i].type = "FLAG_STR"
                       /\ fc.flags[i].ref = 0
                       /\ fc.flags[i].val # fc.flags[i].def


\* C28 as stated: when two or more flags are declared with one name, an
\* occurrence of the name is matched to the first of them only: the storage
\* of the others stays as it was, and the occurrence consumes one value
\* argument at most (the step shifts the flag argument and at most one
\* more).
C28_FirstMatchOnly ==
    [][(/\ pc = "scan" /\ argc > 0
        /\ IsFlagArg(typed'[pos + 1])
        /\ Cardinality(Named(fc, NameTyped(typed'[pos + 1]))) >= 2)
         => /\ \A j \in Named(fc, NameTyped(typed'[pos + 1])) :
                 j # FirstNamed(fc, NameTyped(typed'[pos + 1])) =>
                   StoredNext(j) = Load(fc, vars, flag__get_ref(fc, j))
            /\ pos' <= pos + 2]_vars_all


\* Whether v is a value of the member of Flag_Value that the type selects.
OwnKind(type, v) ==
    CASE type = "FLAG_BOOL" -> v \in BOOLEAN
      [] type \in {"FLAG_UINT64", "FLAG_SIZE"} ->
           DOMAIN v = Limbs /\ \A k \in Limbs : v[k] \in 0..255
      [] type \in {"FLAG_FLOAT", "FLAG_DOUBLE"} -> DOMAIN v = {"cls", "neg", "m", "x"}
      [] type = "FLAG_STR" -> DOMAIN v = {"arg", "off"}
      [] type \in ListTypes ->
           /\ DOMAIN v = {"items", "count", "capacity"}
           /\ \A k \in 1..Len(v.items) : DOMAIN v.items[k] = {"arg", "off"}

\* C29: a declared flag keeps its place, name, description, type, value
\* location (its own val or the variable bound to it) and default through
\* every later declaration and every step of flag_c_parse, whether it
\* succeeds or fails; what its storage holds is always a value of its own
\* type; and flag_c_print_options shows for it the default that it showed
\* before.
C29_FlagFieldsKept ==
    [][/\ Len(fc'.flags) >= Len(fc.flags)
       /\ \A i \in 1..Len(fc.flags) :
            /\ fc'.flags[i].name = fc.flags[i].name
            /\ fc'.flags[i].desc = fc.flags[i].desc
            /\ fc'.flags[i].type = fc.flags[i].type
            /\ fc'.flags[i].ref = fc.flags[i].ref
            /\ fc'.flags[i].def = fc.flags[i].def
            /\ DefaultLine(fc'.flags[i], argv') = DefaultLine(fc.flags[i], argv)
       /\ \A i \in 1..Len(fc'.flags) : OwnKind(fc'.flags[i].type, StoredNext(i))]_vars_all

\* flag_c_parse wrote a number over the default of a flag that stands
\* before a flag of another type, and then failed.
C29_Witness ==
    /\ pc = "false"
    /\ Len(fc.flags) = 2
    /\ fc.flags[1].type = "FLAG_UINT64"
    /\ fc.flags[2].type # "FLAG_UINT64"
    /\ Load(fc, vars, flag__get_ref(fc, 1)) # fc.flags[1].def


(***************************************************************************)
(* SpecLists: list flags, bound or not, with the program name given to     *)
(* flag_c_new, so that every argument may append.                          *)
(***************************************************************************)

Appends ==
    [types   |-> ListTypes,
     binds   |-> {FALSE, TRUE},
     progs   |-> {LitProg},
     push    |-> {FALSE},
     errnos  |-> {ENONE},
     booldef |-> {FALSE},
     arg0    |-> {<<"a", ".", "o", "u", "t">>},
     plain   |-> {<<"o", "u", "t">>},
     unknown |-> {},
     inline  |-> ByType({}, {}, {<<"v">>}, {}),
     sep     |-> ByType({}, {}, {<<"w">>}, {}),
     tail    |-> {<< <<"x">>, <<"-", "l">>, <<"y">> >>}]

SpecLists == InitP(Appends) /\ [][NextP(Appends)]_vars_all

\* The list flags of a context.
Lists(c) == {i \in 1..Len(c.flags) : c.flags[i].type \in ListTypes}

\* C30: every list (of a list flag, or the caller's list bound to one) has
\* count <= capacity with count items, and its capacity is 0 or
\* FLAG_LIST_INIT_CAP times a power of two.  A step changes a list only by
\* an append: the earlier items stay at their indices, the item of the
\* occurrence (one of the arguments the step shifted) is put at index count,
\* and the capacity changes only when count = capacity, from 0 to
\* FLAG_LIST_INIT_CAP and otherwise to its double.
C30_ListCapacity ==
    [][/\ \A i \in Lists(fc') :
            /\ StoredNext(i).count <= StoredNext(i).capacity
            /\ StoredNext(i).count = Len(StoredNext(i).items)
            /\ \/ StoredNext(i).capacity = 0 /\ StoredNext(i).count = 0
               \/ \E k \in 0..MaxArgs : StoredNext(i).capacity = FLAG_LIST_INIT_CAP * 2^k
       /\ \A i \in Lists(fc) :
            \/ StoredNext(i) = Load(fc, vars, flag__get_ref(fc, i))
            \/ /\ pc = "scan"
               /\ StoredNext(i).count = Load(fc, vars, flag__get_ref(fc, i)).count + 1
               /\ SubSeq(StoredNext(i).items, 1, StoredNext(i).count - 1) =
                    Load(fc, vars, flag__get_ref(fc, i)).items
               /\ StoredNext(i).items[StoredNext(i).count].arg \in (pos + 1)..pos'
               /\ StoredNext(i).capacity =
                    IF Load(fc, vars, flag__get_ref(fc, i)).count
                         # Load(fc, vars, flag__get_ref(fc, i)).capacity
                    THEN Load(fc, vars, flag__get_ref(fc, i)).capacity
                    ELSE IF Load(fc, vars, flag__get_ref(fc, i)).capacity = 0
                    THEN FLAG_LIST_INIT_CAP
                    ELSE 2 * Load(fc, vars, flag__get_ref(fc, i)).capacity]_vars_all

\* A list after its first allocation, an append within the capacity and an
\* append that doubled it.
C30_Witness ==
    \E i \in Lists(fc) :
      /\ Load(fc, vars, flag__get_ref(fc, i)).count = FLAG_LIST_INIT_CAP + 1
      /\ Load(fc, vars, flag__get_ref(fc, i)).capacity = 2 * FLAG_LIST_INIT_CAP
      /\ FLAG_LIST_INIT_CAP > 1


\* C31: for the handle that a declare function without binding returned,
\* flag_c_name of v1.7.0 (the scan over the flags comparing their storage
\* addresses) and flag_name of v1.4.1 (the handle taken back to its Flag by
\* offsetof) give the same name, the one given at the declaration.
C31_NameResolutionsAgree ==
    \A i \in 1..Len(fc.flags) :
      fc.flags[i].ref = 0 =>
        /\ flag_c_name(fc, HandleOf(i)) = flag_name_v1_4_1(fc, HandleOf(i))
        /\ flag_name_v1_4_1(fc, HandleOf(i)) = <<fc.flags[i].name>>

\* Two flags of different names declared without binding, the second found
\* by both after a parse that failed.
C31_Witness ==
    /\ pc = "false"
    /\ Len(fc.flags) = 2
    /\ fc.flags[1].ref = 0 /\ fc.flags[2].ref = 0
    /\ fc.flags[1].name # fc.flags[2].name
    /\ flag_name_v1_4_1(fc, HandleOf(2)) = <<fc.flags[2].name>>
    /\ flag_c_name(fc, HandleOf(2)) = flag_name_v1_4_1(fc, HandleOf(2))


\* C32: a call of flag_c_parse writes one of the two groups of results of
\* the context.  Entering the call and going round the loop leave
\* flag_error, flag_error_name, rest_argc and rest_argv as they were; the
\* step that returns true sets rest_argc and rest_argv (to the end of the
\* vector) and leaves flag_error and flag_error_name as they were, even when
\* an earlier call left an error there; the step that returns false sets
\* flag_error to a kind other than FLAG_NO_ERROR, and flag_error_name, and
\* leaves rest_argc and rest_argv as they were.
C32_OneResultGroup ==
    [][/\ (pc = "declare" \/ (pc = "scan" /\ pc' = "scan")) =>
            /\ fc'.flag_error = fc.flag_error
            /\ fc'.flag_error_name = fc.flag_error_name
            /\ fc'.rest_argc = fc.rest_argc
            /\ fc'.rest_argv = fc.rest_argv
       /\ (pc = "scan" /\ pc' = "true") =>
            /\ fc'.flag_error = fc.flag_error
            /\ fc'.flag_error_name = fc.flag_error_name
            /\ fc'.rest_argc \in 0..argc
            /\ fc'.rest_argv + fc'.rest_argc = pos + argc
       /\ (pc = "scan" /\ pc' = "false") =>
            /\ fc'.flag_error # "FLAG_NO_ERROR"
            /\ fc'.flag_error_name # NULL
            /\ fc'.flag_error_name.arg = pos + 1
            /\ fc'.rest_argc = fc.rest_argc
            /\ fc'.rest_argv = fc.rest_argv]_vars_all

\* A call fails on an unknown flag after a call that succeeded with a rest:
\* the context holds the error of the one and the rest of the other.
C32_Witness ==
    /\ pc = "false"
    /\ fc.flag_error = "FLAG_ERROR_UNKNOWN"
    /\ fc.rest_argc > 0
    /\ fc.rest_argv >= 0
    /\ fc.flag_error_name.arg > fc.rest_argv + fc.rest_argc


(***************************************************************************)
(* SpecWrap: size flags given numerals that fit in 64 bits with suffixes   *)
(* whose multiplier takes the product past 2^64-1, with errno clear or     *)
(* left at ERANGE before flag_c_parse.                                     *)
(***************************************************************************)

Products ==
    [types   |-> {"FLAG_SIZE"},
     binds   |-> {FALSE, TRUE},
     progs   |-> {NULL},
     push    |-> {FALSE},
     errnos  |-> {ENONE, ERANGE},
     booldef |-> {FALSE},
     arg0    |-> {<<"a", ".", "o", "u", "t">>},
     plain   |-> {<<"o", "u", "t">>},
     unknown |-> {},
     inline  |-> [t \in FlagTypes \cup {"none"} |->
                    IF t = "FLAG_SIZE"
                    THEN {<<"2", "K">>, <<"3", "Z">>, <<"7", "Y", "B">>,
                          MaxText \o <<"w">>}
                    ELSE {}],
     sep     |-> [t \in FlagTypes \cup {"none"} |->
                    IF t = "FLAG_SIZE"
                    THEN {<<"1", "7", "E">>, <<"1", "9", "E", "B">>}
                    ELSE {}],
     tail    |-> {<< <<"x">>, <<"-", "n">>, <<"y">> >>}]

InitWrap == InitP(Products)

NextWrap == NextP(Products)

SpecWrap == InitWrap /\ [][NextWrap]_vars_all

\* The factors of the multiplier of a recognized suffix.
MultiplierOf(sfx) ==
    IF sfx \in SuffixesToG THEN MultiplierToG(sfx) ELSE MultiplierLarge(sfx)

\* The numeral d (as Decimal gives it) times the factors.
ProductFrom(d, factors) ==
    IF d.end = 0 THEN [val |-> U64Zero, fits |-> TRUE]
    ELSE Scaled(d.val, factors)

\* The numeral of the size value v times the multiplier of its suffix.
Product(v) == ProductFrom(Decimal(v), MultiplierOf(SuffixOf(v)))

\* The size value v is a numeral that fits in 64 bits followed by a
\* recognized suffix, and the numeral times the multiplier does not fit.
ProductWraps(v) ==
    /\ Decimal(v).end > 0
    /\ ~Decimal(v).over
    /\ SuffixOf(v) \in Recognized
    /\ ~Product(v).fits

\* C33: a size flag given a numeral that fits in 64 bits whose product with
\* the multiplier of its suffix is above 2^64-1 raises no failure, whatever
\* errno was left at, and stores the product modulo 2^64 in the flag (in
\* each flag of the name when the value is inline).
C33_ProductWraps ==
    [][(/\ pc = "scan" /\ argc > 0
        /\ IsFlagArg(typed'[pos + 1]) /\ ~IsIgnored(typed'[pos + 1])
        /\ TypeOfName(fc, NameTyped(typed'[pos + 1])) = "FLAG_SIZE"
        /\ \/ HasInline(typed'[pos + 1])
           \/ DeclaredOnce(fc, NameTyped(typed'[pos + 1]), "FLAG_SIZE")
        /\ HasValue(typed'[pos + 1])
        /\ ProductWraps(ValueTyped(typed'[pos + 1])))
         => /\ pc' = "scan"
            /\ fc'.flag_error = fc.flag_error
            /\ \A i \in Named(fc, NameTyped(typed'[pos + 1])) :
                 StoredNext(i) = Product(ValueTyped(typed'[pos + 1])).val]_vars_all

\* 2^64-1 doubled was given to a size flag while errno was ERANGE: the flag
\* holds 2^64-2 and the parse goes on.
C33_Witness ==
    /\ pc = "scan" /\ pos >= 2
    /\ errno = ERANGE
    /\ IsFlagArg(typed[pos])
    /\ HasInline(typed[pos])
    /\ InlineTyped(typed[pos]) = MaxText \o <<"w">>
    /\ TypeOfName(fc, NameTyped(typed[pos])) = "FLAG_SIZE"
    /\ Load(fc, vars, flag__get_ref(fc, FirstNamed(fc, NameTyped(typed[pos]))))
         = Scaled(ULLONG_MAX, <<2>>).val
    /\ Scaled(ULLONG_MAX, <<2>>).val # ULLONG_MAX


(***************************************************************************)
(* SpecBlank: uint64 and size flags given values without a digit: the      *)
(* empty string, inline (`-n=`) or as an argument of its own.              *)
(***************************************************************************)

Blank ==
    [types   |-> {"FLAG_UINT64", "FLAG_SIZE"},
     binds   |-> {FALSE, TRUE},
     progs   |-> {NULL},
     push    |-> {FALSE},
     errnos  |-> {ENONE, ERANGE},
     booldef |-> {FALSE},
     arg0    |-> {<<"a", ".", "o", "u", "t">>},
     plain   |-> {<<"o", "u", "t">>},
     unknown |-> {},
     inline  |-> ByType({<<>>, <<"7">>, <<"+">>}, {}, {}, {}),
     sep     |-> ByType({<<>>, <<"4">>}, {}, {}, {}),
     tail    |-> {<< <<"x">>, <<"-", "n">>, <<"y">> >>}]

InitBlank == InitP(Blank)

NextBlank == NextP(Blank)

SpecBlank == InitBlank /\ [][NextBlank]_vars_all

\* case FLAG_UINT64 of flag_parse in the earliest variant, after
\* `result = strtoull(arg, &endptr, 10)`: the error it raises for the
\* argument at buf[off], or FLAG_NO_ERROR when it stores the result.
flag_parse_uint64(buf, off, r) ==
    IF off = r.end \/ CharAt(buf, r.end) # NUL THEN "FLAG_ERROR_INVALID_NUMBER"
    ELSE IF r.result = ULLONG_MAX /\ r.errno = ERANGE THEN "FLAG_ERROR_INTEGER_OVERFLOW"
    ELSE "FLAG_NO_ERROR"

\* C34: a uint64 or size flag given the empty string as its value, inline
\* (`-n=`) or as the next argument, raises no failure and stores 0,
\* whatever errno was left at (in each flag of the name when the value is
\* inline), while the uint64 case of the earliest variant answers
\* FLAG_ERROR_INVALID_NUMBER for the same value.
C34_EmptyNumeral ==
    [][(/\ pc = "scan" /\ argc > 0
        /\ IsFlagArg(typed'[pos + 1]) /\ ~IsIgnored(typed'[pos + 1])
        /\ TypeOfName(fc, NameTyped(typed'[pos + 1])) \in {"FLAG_UINT64", "FLAG_SIZE"}
        /\ \/ HasInline(typed'[pos + 1])
           \/ Cardinality(Named(fc, NameTyped(typed'[pos + 1]))) = 1
        /\ HasValue(typed'[pos + 1])
        /\ ValueTyped(typed'[pos + 1]) = <<>>)
         => /\ pc' = "scan"
            /\ fc'.flag_error = fc.flag_error
            /\ \A i \in Named(fc, NameTyped(typed'[pos + 1])) : StoredNext(i) = U64Zero
            /\ flag_parse_uint64(ValueTyped(typed'[pos + 1]), 0,
                                 Strtoull(ValueTyped(typed'[pos + 1]), 0, errno))
                 = "FLAG_ERROR_INVALID_NUMBER"]_vars_all

\* `-n=` was given to a uint64 flag declared with a default that is not 0:
\* the flag holds 0 and the parse goes on.
C34_Witness ==
    /\ pc = "scan" /\ pos >= 2
    /\ IsFlagArg(typed[pos])
    /\ HasInline(typed[pos])
    /\ InlineTyped(typed[pos]) = <<>>
    /\ TypeOfName(fc, NameTyped(typed[pos])) = "FLAG_UINT64"
    /\ fc.flags[FirstNamed(fc, NameTyped(typed[pos]))].def # U64Zero
    /\ Load(fc, vars, flag__get_ref(fc, FirstNamed(fc, NameTyped(typed[pos])))) = U64Zero


\* C35 as stated: a uint64 or size flag given the value 18446744073709551615
\* (2^64-1) stores it and raises no failure, whatever was converted earlier
\* in the call or before it.
C35_MaxAccepted ==
    [][(/\ pc = "scan" /\ argc > 0
        /\ IsFlagArg(typed'[pos + 1]) /\ ~IsIgnored(typed'[pos + 1])
        /\ TypeOfName(fc, NameTyped(typed'[pos + 1])) \in {"FLAG_UINT64", "FLAG_SIZE"}
        /\ \/ HasInline(typed'[pos + 1])
           \/ Cardinality(Named(fc, NameTyped(typed'[pos + 1]))) = 1
        /\ HasValue(typed'[pos + 1])
        /\ ValueTyped(typed'[pos + 1]) = MaxText)
         => /\ pc' = "scan"
            /\ \A i \in Named(fc, NameTyped(typed'[pos + 1])) :
                 StoredNext(i) = ULLONG_MAX]_vars_all


(***************************************************************************)
(* SpecOdd: a program whose flags may be named with the empty string or    *)
(* with a name that begins with a dash, and a user who types `-`, `--x`    *)
(* and `--` where a flag is expected.                                      *)
(***************************************************************************)

\* The names the calling program may give besides those of NameOf.
OddNames == {<<>>, <<"-", "x">>}

Odd ==
    [types   |-> {"FLAG_BOOL", "FLAG_STR"},
     binds   |-> {FALSE},
     progs   |-> {NULL},
     push    |-> {FALSE},
     errnos  |-> {ENONE},
     booldef |-> {FALSE},
     arg0    |-> {<<"a", ".", "o", "u", "t">>},
     plain   |-> {<<"o", "u", "t">>, <<"-", "-">>},
     unknown |-> OddNames,
     inline  |-> ByType({}, {}, {<<"v">>}, {<<"v">>}),
     sep     |-> ByType({}, {}, {<<"w">>, <<"-">>}, {}),
     tail    |-> {<< <<"x">>, <<"-">>, <<"y">> >>}]

\* flag_c_bool, flag_c_str called with one of the names of OddNames.
DeclareOdd(P) ==
    /\ pc = "declare"
    /\ \E type \in P.types : \E def \in DefaultsOf(P, type) : \E name \in OddNames :
         IF Len(fc.flags) < FLAGS_CAP
         THEN /\ fc' = flag_c_declare(fc, type, name, def, "desc")
              /\ UNCHANGED <<vars, push_back, fc2, stream, pc>>
         ELSE /\ pc' = "abort"
              /\ UNCHANGED <<fc, vars, push_back, fc2, stream>>
    /\ UNCHANGED <<Parsing, constraints>>

NextOdd ==
    \/ DeclareVal(Odd)
    \/ DeclareOdd(Odd)
    \/ ParseEntry(Odd)
    \/ ParseIter(Odd)
    \/ ParseExit(Odd)

SpecOdd == InitP(Odd) /\ [][NextOdd]_vars_all

\* C36: an argument that begins with a dash and is not `--`, met where a
\* flag is expected, never ends the parse with a rest: rest_argc and
\* rest_argv are left alone.  Its name is what follows the first dash: the
\* empty name for `-`, a name that begins with a dash for `--x`.  When no
\* flag has that name the step fails with FLAG_ERROR_UNKNOWN naming it;
\* when one has, the step does not fail with FLAG_ERROR_UNKNOWN, and when
\* the parse goes on a bool flag of the name is set (unless the argument
\* carries the ignore marker).
C36_DashIsNeverRest ==
    [][(/\ pc = "scan" /\ argc > 0
        /\ CharAt(typed'[pos + 1], 0) = "-"
        /\ typed'[pos + 1] # <<"-", "-">>)
         => /\ pc' # "true"
            /\ fc'.rest_argc = fc.rest_argc
            /\ fc'.rest_argv = fc.rest_argv
            /\ typed'[pos + 1] = <<"-">> => NameTyped(typed'[pos + 1]) = <<>>
            /\ (Len(typed'[pos + 1]) >= 2 /\ typed'[pos + 1][2] = "-" /\ ~HasInline(typed'[pos + 1]))
                 => NameTyped(typed'[pos + 1]) = Tail(typed'[pos + 1])
            /\ NameTyped(typed'[pos + 1]) \notin Names(fc)
                 => /\ FailsWith("FLAG_ERROR_UNKNOWN")
                    /\ CStr(argv', fc'.flag_error_name) = NameTyped(typed'[pos + 1])
                    /\ fc'.flag_error_name.arg = pos + 1
            /\ NameTyped(typed'[pos + 1]) \in Names(fc)
                 => /\ ~(pc' = "false" /\ fc'.flag_error = "FLAG_ERROR_UNKNOWN")
                    /\ \A i \in Named(fc, NameTyped(typed'[pos + 1])) :
                         (/\ fc.flags[i].type = "FLAG_BOOL" /\ pc' = "scan"
                          /\ ~IsIgnored(typed'[pos + 1]))
                           => StoredNext(i) = TRUE]_vars_all

\* `--x` was typed to a program that has a bool flag named `-x` and none
\* named `x`: the flag is set and the parse goes on.
C36_Witness ==
    /\ pc = "scan" /\ pos >= 2
    /\ typed[pos] = <<"-", "-", "x">>
    /\ <<"-", "x">> \in Names(fc)
    /\ <<"x">> \notin Names(fc)
    /\ fc.flags[FirstNamed(fc, <<"-", "x">>)].type = "FLAG_BOOL"
    /\ fc.flags[FirstNamed(fc, <<"-", "x">>)].val = TRUE
    /\ fc.flag_error = "FLAG_NO_ERROR"


(***************************************************************************)
(* SpecBools: bool flags given inline values (`-b=false`, `-b=`, `-b=v`),  *)
(* next to a string flag, against short command lines.                     *)
(***************************************************************************)

Switches ==
    [types   |-> {"FLAG_BOOL", "FLAG_STR"},
     binds   |-> {FALSE, TRUE},
     progs   |-> {NULL},
     push    |-> {FALSE},
     errnos  |-> {ENONE},
     booldef |-> {FALSE, TRUE},
     arg0    |-> {<<"a", ".", "o", "u", "t">>},
     plain   |-> {<<"o", "u", "t">>},
     unknown |-> {<<"q">>},
     inline  |-> ByType({}, {}, {<<"v">>},
                        {<<>>, <<"f", "a", "l", "s", "e">>, <<"v">>}),
     sep     |-> ByType({}, {}, {<<"w">>}, {}),
     tail    |-> {<< <<"x">>, <<"-", "b">>, <<"y">> >>}]

SpecBools == InitP(Switches) /\ [][NextP(Switches)]_vars_all

\* C37: a flag argument with an inline value (`-b=false`, `-b=`, `-b=v`)
\* whose name, the text before the '=', is that of bool flags only sets each
\* of them to true whatever the value text is, raises no failure and shifts
\* that one argument only: the argument after it is still to be read.
C37_BoolInlineValue ==
    [][(/\ pc = "scan" /\ argc > 0
        /\ IsFlagArg(typed'[pos + 1]) /\ ~IsIgnored(typed'[pos + 1])
        /\ HasInline(typed'[pos + 1])
        /\ Named(fc, NameTyped(typed'[pos + 1])) # {}
        /\ \A i \in Named(fc, NameTyped(typed'[pos + 1])) : fc.flags[i].type = "FLAG_BOOL")
         => /\ pc' = "scan"
            /\ fc'.flag_error = fc.flag_error
            /\ \A i \in Named(fc, NameTyped(typed'[pos + 1])) : StoredNext(i) = TRUE
            /\ \A i \in 1..Len(fc.flags) :
                 i \notin Named(fc, NameTyped(typed'[pos + 1]))
                   => StoredNext(i) = Load(fc, vars, flag__get_ref(fc, i))
            /\ pos' = pos + 1
            /\ argc' = argc - 1
            /\ Len(typed') = Len(typed) + 1]_vars_all

\* `-b=false` was given to a bool flag declared with the default false,
\* with an argument after it: the flag holds true, the parse goes on and
\* the argument after it is still to be read.
C37_Witness ==
    /\ pc = "scan" /\ pos >= 2
    /\ argc > 0
    /\ typed[pos] = <<"-", "b", "=", "f", "a", "l", "s", "e">>
    /\ Len(typed) = pos
    /\ DeclaredOnce(fc, <<"b">>, "FLAG_BOOL")
    /\ fc.flags[FirstNamed(fc, <<"b">>)].def = FALSE
    /\ Load(fc, vars, flag__get_ref(fc, FirstNamed(fc, <<"b">>))) = TRUE
    /\ fc.flag_error = "FLAG_NO_ERROR"


(***************************************************************************)
(* flag_c_parse of v1.4.1.  Its Flag has no ref and its context no         *)
(* flag_error_value: the operators below leave those fields of the record  *)
(* alone.  flag_shift_args, flag_list_append, the fetch of the value       *)
(* (FetchArg), the cut at the '=' (SplitEquals) and the returns with a     *)
(* rest (ReturnRest, DashDashRest) read the same in both versions.         *)
(***************************************************************************)

\* The types of v1.4.1 (COUNT_FLAG_TYPES == 6).
FlagTypes_v1_4_1 ==
    {"FLAG_BOOL", "FLAG_UINT64", "FLAG_SIZE", "FLAG_STR", "FLAG_LIST", "FLAG_LIST_MUT"}

\* fc->flags[i].val.as_* = v;
Store_v1_4_1(st, i, v) == [st EXCEPT !.fc.flags[i].val = v]

\* case FLAG_UINT64 after `result = strtoull(arg, &endptr, 10)`
CaseUint64_v1_4_1(st, i, flag, buf, r) ==
    IF CharAt(buf, r.end) # NUL
    THEN Fail(SetErrno(st, r.errno), "FLAG_ERROR_INVALID_NUMBER", flag)
    ELSE IF r.result = ULLONG_MAX /\ r.errno = ERANGE
    THEN Fail(SetErrno(st, r.errno), "FLAG_ERROR_INTEGER_OVERFLOW", flag)
    ELSE [st |-> Store_v1_4_1(SetErrno(st, r.errno), i, r.result), ret |-> "break"]

\* case FLAG_SIZE after strtoull: the suffixes K, M, G and the empty one.
CaseSize_v1_4_1(st, i, flag, sfx, r) ==
    IF sfx \notin {<<>>, <<"K">>, <<"M">>, <<"G">>}
    THEN Fail(SetErrno(st, r.errno), "FLAG_ERROR_INVALID_SIZE_SUFFIX", flag)
    ELSE IF /\ r.errno = ERANGE
            /\ ULLONG_MAX = (CASE sfx = <<"K">> -> Mul64(r.result, U64(1024))
                               [] sfx = <<"M">> -> Mul64(r.result, U64(1024 * 1024))
                               [] sfx = <<"G">> -> Mul64(r.result, U64(1024 * 1024 * 1024))
                               [] OTHER -> r.result)
    THEN Fail(SetErrno(st, r.errno), "FLAG_ERROR_INTEGER_OVERFLOW", flag)
    ELSE [st  |-> Store_v1_4_1(SetErrno(st, r.errno), i,
                     CASE sfx = <<"K">> -> Mul64(r.result, U64(1024))
                       [] sfx = <<"M">> -> Mul64(r.result, U64(1024 * 1024))
                       [] sfx = <<"G">> -> Mul64(r.result, U64(1024 * 1024 * 1024))
                       [] OTHER -> r.result),
          ret |-> "break"]

\* The cases that take a value, a being what the fetch of the value gave.
SwitchValue_v1_4_1(type, i, flag, a) ==
    IF a.ret # "ok"
    THEN [st |-> a.st, ret |-> a.ret]
    ELSE CASE type \in ListTypes ->
                [st  |-> Store_v1_4_1(a.st, i, flag_list_append(a.st.fc.flags[i].val, a.arg)),
                 ret |-> "break"]
           [] type = "FLAG_STR" ->
                [st |-> Store_v1_4_1(a.st, i, a.arg), ret |-> "break"]
           [] type = "FLAG_UINT64" ->
                CaseUint64_v1_4_1(a.st, i, flag, BufOf(a.st.mem, a.arg),
                                  Strtoull(BufOf(a.st.mem, a.arg), a.arg.off, a.st.errno))
           [] type = "FLAG_SIZE" ->
                CaseSize_v1_4_1(a.st, i, flag,
                    CStr(a.st.mem,
                         [arg |-> a.arg.arg,
                          off |-> Strtoull(BufOf(a.st.mem, a.arg), a.arg.off, a.st.errno).end]),
                    Strtoull(BufOf(a.st.mem, a.arg), a.arg.off, a.st.errno))

\* The switch on fc->flags[i].type for the flag whose name matched.
SwitchType_v1_4_1(st, i, flag, equals) ==
    IF st.fc.flags[i].type = "FLAG_BOOL"
    THEN [st |-> Store_v1_4_1(st, i, TRUE), ret |-> "break"]
    ELSE IF st.fc.flags[i].type \notin FlagTypes_v1_4_1
    THEN [st |-> st, ret |-> "abort"]
    ELSE SwitchValue_v1_4_1(st.fc.flags[i].type, i, flag, FetchArg(st, flag, equals))

\* for (i = 0; i < flags_count; ++i) from flag i on; `found = true` after
\* the switch, and no break out of the loop.
RECURSIVE ForFlags_v1_4_1(_, _, _, _, _)
RECURSIVE AfterSwitch_v1_4_1(_, _, _, _, _)
AfterSwitch_v1_4_1(h, i, flag, equals, found) ==
    IF h.ret # "break"
    THEN [st |-> h.st, found |-> found, ret |-> h.ret]
    ELSE ForFlags_v1_4_1(h.st, i + 1, flag, equals, TRUE)

ForFlags_v1_4_1(st, i, flag, equals, found) ==
    IF i > Len(st.fc.flags)
    THEN [st |-> st, found |-> found, ret |-> "done"]
    ELSE IF StrEq(st.fc.flags[i].name, CStr(st.mem, flag))
    THEN AfterSwitch_v1_4_1(SwitchType_v1_4_1(st, i, flag, equals), i, flag, equals, found)
    ELSE ForFlags_v1_4_1(st, i + 1, flag, equals, found)

\* After the loop over the flags gave f: `if (!found)`.
IfNotFound_v1_4_1(flag, f) ==
    IF f.ret # "done"
    THEN [st |-> f.st, ret |-> f.ret]
    ELSE IF ~f.found
    THEN Fail(f.st, "FLAG_ERROR_UNKNOWN", flag)
    ELSE [st |-> f.st, ret |-> "continue"]

\* The lookup of the flag (the argument after `flag += 1`), with the '='
\* split off (sp).
LookUp_v1_4_1(st, flag, sp) ==
    IfNotFound_v1_4_1(flag, ForFlags_v1_4_1([st EXCEPT !.mem = sp.mem], 1, flag,
                                            sp.equals, FALSE))

\* The argument tok is shifted, s1 is the state after the shift.
Shifting_v1_4_1(s1, tok, pushBack) ==
    IF CharAt(s1.mem[tok.arg], 0) # "-"
    THEN ReturnRest(s1, s1.argc + 1, s1.pos - 1)
    ELSE IF CStr(s1.mem, tok) = <<"-", "-">>
    THEN DashDashRest(s1, pushBack)
    ELSE LookUp_v1_4_1(s1, [tok EXCEPT !.off = 1],
                       SplitEquals(s1.mem, [tok EXCEPT !.off = 1]))

\* One iteration of `while (argc > 0)` of v1.4.1, entered with argc > 0.
LoopBody_v1_4_1(st, pushBack) ==
    IF ArgsLeft(st) THEN Shifting_v1_4_1(flag_shift_args(st), Shifted(st), pushBack)
    ELSE [st |-> st, ret |-> "abort"]

\* The kinds both versions have besides Size, and a registry that uses only
\* them, every flag declared without a variable of the caller.
SharedKinds == {"FLAG_BOOL", "FLAG_UINT64", "FLAG_STR", "FLAG_LIST", "FLAG_LIST_MUT"}

SharedRegistry(c) ==
    \A i \in 1..Len(c.flags) : c.flags[i].type \in SharedKinds /\ c.flags[i].ref = 0

\* No argument of the vector args begins with `-/`.
NoIgnoreMarker(args) ==
    \A k \in 1..Len(args) : ~(CharAt(args[k], 0) = "-" /\ CharAt(args[k], 1) = "/")

\* The iteration r of v1.4.1 ends as the step to the next state does: the
\* same return, arguments read, option values, error kind and name, rest
\* and errno, and the same characters left in the strings of the vector.
SameOutcome(r) ==
    /\ EndOf(r) = pc'
    /\ r.st.pos = pos'
    /\ r.st.argc = argc'
    /\ r.st.errno = errno'
    /\ r.st.fc.flags = fc'.flags
    /\ r.st.fc.program_name = fc'.program_name
    /\ r.st.fc.flag_error = fc'.flag_error
    /\ r.st.fc.flag_error_name = fc'.flag_error_name
    /\ r.st.fc.rest_argc = fc'.rest_argc
    /\ r.st.fc.rest_argv = fc'.rest_argv
    /\ r.st.vars = vars'
    /\ r.st.mem = argv'

\* C38: with a registry of bool, uint64, string, list and mutable list
\* flags declared without a variable of the caller, and a vector in which
\* no argument begins with `-/`, an iteration of flag_c_parse of v1.4.1 on
\* the state and the arguments of a step of v1.7.0 gives what that step
\* gives: the same return (or the loop goes on in both), the same error
\* kind and name, the same rest, the same option values.
C38_SameAsV141 ==
    [][(/\ pc = "scan" /\ argc > 0
        /\ SharedRegistry(fc)
        /\ NoIgnoreMarker(typed'))
         => SameOutcome(LoopBody_v1_4_1(Retyped(typed'[pos + 1]), push_back))]_vars_all

\* Both versions stored 42 from `-n=42` in a uint64 flag next to a list
\* flag, after an argument before it, and go on.
C38_Witness ==
    /\ pc = "scan" /\ pos >= 2
    /\ SharedRegistry(fc)
    /\ NoIgnoreMarker(typed)
    /\ Len(fc.flags) = 2
    /\ fc.flags[1].type = "FLAG_UINT64"
    /\ fc.flags[2].type \in ListTypes
    /\ typed[pos] = <<"-", "n", "=", "4", "2">>
    /\ fc.flags[1].val = U64(42)
    /\ fc.flags[1].val # fc.flags[1].def

=============================================================================
